---- MODULE Spec2Model ----
(***************************************************************************)
(* Pointer picking and highlight handling of the 3D viewers:               *)
(*   use3DInteraction.handleCanvasClick  (hooks/use3DInteraction.ts)       *)
(*   AdvancedScene.onCanvasClick / highlightObject                         *)
(*   WarehouseModel.raycast / highlightObject / unhighlightObject          *)
(* One behaviour follows one mounted component (variable component); the  *)
(* scene graph is a fixed tree and materials are heap objects referenced by *)
(* the meshes.  A click handler runs to completion; the state updates it   *)
(* queues are committed by React before the next event is delivered.       *)
(* The utilities the viewers sit next to are modelled alongside, each with *)
(* a specification of its own:                                             *)
(*   ModelManager.loadModel / getModel / removeModel / clearCache          *)
(*   aiUtils.textToSQL with dataUtils.sanitizeString                       *)
(*   aiUtils.generateChartConfig, truncateText                             *)
(*   the hooks useDataFetching and useAIAnalysis                           *)
(*   SKUMapper.handleMapSKU with useSKUMapping                             *)
(***************************************************************************)
EXTENDS Integers, Sequences, FiniteSets, TLC

(***************************************************************************)
(* Bounds of the model.                                                    *)
(***************************************************************************)
MaxDim == 2
MaxCoord == 3

(***************************************************************************)
(* Program constants.                                                      *)
(***************************************************************************)
HighlightHex == 16753920
HighlightIntensityTenths == 5
UnhighlightHex == 0
UnhighlightIntensityTenths == 0

None == "none"

(***************************************************************************)
(* The scene graph.  Root is the scene; A, B, E are groups flagged         *)
(* selectable, C and F are plain groups, M is a selectable mesh with a     *)
(* child mesh.  D sits two levels below the selectable E.  T is a          *)
(* selectable group whose first mesh carries a malformed material.         *)
(***************************************************************************)
NodeOrder ==
  <<"Root", "A", "A1", "A2", "B", "B1", "C", "C1", "E", "F", "D", "M", "M1", "T", "T1", "T2">>

Nodes == {NodeOrder[i] : i \in 1..Len(NodeOrder)}

Parent ==
  [n \in Nodes |->
     CASE n = "Root" -> None
       [] n \in {"A", "B", "C", "E", "M", "T"} -> "Root"
       [] n \in {"A1", "A2"} -> "A"
       [] n = "B1" -> "B"
       [] n = "C1" -> "C"
       [] n = "F" -> "E"
       [] n = "D" -> "F"
       [] n = "M1" -> "M"
       [] n \in {"T1", "T2"} -> "T"]

Meshes == {"A1", "A2", "B1", "C1", "D", "M", "M1", "T1", "T2"}

Selectable == {"A", "B", "E", "M", "T"}

IsSelectable(n) == n \in Selectable

(* Object3D.name of each node, as a sequence of characters.                *)
NodeName ==
  [n \in Nodes |->
     CASE n = "A" -> <<"A", "-", "1">>
       [] n = "B" -> <<"B", "#">>
       [] n = "C" -> <<>>
       [] OTHER -> <<n>>]

WordChars == Nodes \cup {"1", "_", " "}

(* String(name).replace(/[^\w\s]/gi, '')                                   *)
Sanitize(name) == SelectSeq(name, LAMBDA ch : ch \in WordChars)

ChildrenOf(n) == SelectSeq(NodeOrder, LAMBDA c : Parent[c] = n)

RECURSIVE Flatten(_)
Flatten(ss) == IF ss = <<>> THEN <<>> ELSE Head(ss) \o Flatten(Tail(ss))

(* Object3D.traverse: the node, then each child's subtree, in order.       *)
RECURSIVE TraverseFrom(_)
TraverseFrom(n) ==
  <<n>> \o Flatten([i \in 1..Len(ChildrenOf(n)) |-> TraverseFrom(ChildrenOf(n)[i])])

SeqToSet(s) == {s[i] : i \in 1..Len(s)}

TraverseTable == [n \in Nodes |-> TraverseFrom(n)]

Traverse(n) == TraverseTable[n]

SubtreeTable == [n \in Nodes |-> SeqToSet(TraverseTable[n])]

Subtree(n) == SubtreeTable[n]

(***************************************************************************)
(* Materials.  A mesh's material field holds one material or an array;     *)
(* after AdvancedScene's restore an array can hold arrays.  Plain          *)
(* materials have no emissive property; a malformed material has an        *)
(* emissive value that is not a Color, so that emissive.setHex throws.      *)
(***************************************************************************)
Materials == {"a1", "a2a", "a2b", "b1", "c1", "d", "m", "m1", "t1", "t2"}

HasEmissive == Materials \ {"a2b"}

Malformed == {"t1"}

Mat(id) == [kind |-> "mat", id |-> id, items |-> <<>>]

Arr(items) == [kind |-> "arr", id |-> "", items |-> items]

InitialMaterial ==
  [n \in Meshes |->
     CASE n = "A1" -> Mat("a1")
       [] n = "A2" -> Arr(<<Mat("a2a"), Mat("a2b")>>)
       [] n = "B1" -> Mat("b1")
       [] n = "C1" -> Mat("c1")
       [] n = "D" -> Mat("d")
       [] n = "M" -> Mat("m")
       [] n = "M1" -> Mat("m1")
       [] n = "T1" -> Mat("t1")
       [] n = "T2" -> Mat("t2")]

(***************************************************************************)
(* Arithmetic of the pointer normalization.  A value is the fraction n/d   *)
(* in lowest terms; d = 0 stands for the non-finite results of a division  *)
(* by zero (n = 0: NaN, n = 1: +Infinity, n = -1: -Infinity).              *)
(***************************************************************************)
Abs(i) == IF i < 0 THEN -i ELSE i

RECURSIVE Gcd(_, _)
Gcd(a, b) == IF b = 0 THEN a ELSE Gcd(b, a % b)

Sign(i) == IF i > 0 THEN 1 ELSE IF i < 0 THEN -1 ELSE 0

Frac(n, d) ==
  IF d = 0 THEN [n |-> Sign(n), d |-> 0]
  ELSE LET g == Gcd(Abs(n), Abs(d))
       IN  [n |-> (Sign(d) * n) \div g, d |-> Abs(d) \div g]

IsFinite(r) == r.d # 0

Div(a, b) == Frac(a, b)

MulInt(r, k) == IF IsFinite(r) THEN Frac(r.n * k, r.d) ELSE [n |-> r.n * Sign(k), d |-> 0]

AddInt(r, k) == IF IsFinite(r) THEN Frac(r.n + k * r.d, r.d) ELSE r

Neg(r) == [n |-> -r.n, d |-> r.d]

(* NormalizeY without the inversion of the Y axis.                         *)
NormalizeYNotInverted(y, top, height) == AddInt(MulInt(Div(y - top, height), 2), -1)

(* ((event.clientX - rect.left) / rect.width) * 2 - 1                      *)
NormalizeX(x, left, width) == AddInt(MulInt(Div(x - left, width), 2), -1)

(* -((event.clientY - rect.top) / rect.height) * 2 + 1                     *)
NormalizeY(y, top, height) == AddInt(MulInt(Neg(Div(y - top, height)), 2), 1)

Zero == Frac(0, 1)

(***************************************************************************)
(* Pointer events.  An event carries the pointer position, the rectangle   *)
(* getBoundingClientRect returns for the canvas, and the meshes the ray    *)
(* through that position passes through, nearest first.                    *)
(***************************************************************************)
(* Rays of the clicks explored by Spec: through well-formed entities.       *)
Rays == {<<>>} \cup {<<m>> : m \in Meshes \ Subtree("T")} \cup {<<"C1", "A1">>}

(* Rays that in addition strike the entity with the malformed material.    *)
FaultRays == Rays \cup {<<"T1">>, <<"T2">>}

Event(x, y, left, top, width, height, ray) ==
  [x |-> x, y |-> y, left |-> left, top |-> top, width |-> width, height |-> height, ray |-> ray]

(* Clicks explored by Spec: both degenerate and regular rectangles.        *)
Events ==
  {Event(0, 0, 0, 0, w, h, ray) : w \in {0, MaxDim}, h \in {0, MaxDim}, ray \in Rays}

(* Clicks explored by PointerSpec: every position and rectangle.           *)
PointerEvents ==
  LET Axis == {<<p, o, d>> : p \in 0..MaxCoord, o \in {0, 1}, d \in 0..MaxDim}
      Base == <<0, 0, MaxDim>>
  IN  {Event(a[1], b[1], a[2], b[2], a[3], b[3], <<>>) :
         a \in Axis, b \in {c \in Axis : c = Base}}
      \cup {Event(a[1], b[1], a[2], b[2], a[3], b[3], <<>>) :
               b \in Axis, a \in {c \in Axis : c = Base}}
      \cup {Event(a[1], a[1], a[2], a[2], a[3], a[3], <<"A1">>) : a \in Axis}

NoEvent == Event(0, 0, 0, 0, 0, 0, <<>>)

Degenerate(e) == e.width = 0 \/ e.height = 0

(* Raycaster.intersectObjects(objects, true): the hits among the subtrees  *)
(* of objects, nearest first; a ray set from non-finite coordinates hits   *)
(* nothing.                                                                *)
IntersectObjects(objects, e, mouse) ==
  IF IsFinite(mouse.x) /\ IsFinite(mouse.y)
  THEN SelectSeq(e.ray, LAMBDA m : \E o \in objects : m \in Subtree(o))
  ELSE <<>>

(***************************************************************************)
(* State.                                                                  *)
(***************************************************************************)
VARIABLES
  component,             \* the mounted component whose handler receives the clicks
  camera,                \* "none", "perspective" or "orthographic"
  scene,                 \* "none" or "present"
  sceneGraph,            \* parent, selectable flag and name of every node of the scene
  material,              \* Mesh.material of every mesh
  emissive,              \* material.emissive (hex) of every material
  emissiveIntensity,     \* material.emissiveIntensity, in tenths
  selectedObject,        \* AdvancedScene: the selectedObject state
  originalMaterialsRef,  \* AdvancedScene: originalMaterialsRef.current
  interactiveObjects,    \* WarehouseModel: interactiveObjects
  mouseRef,              \* use3DInteraction: mouseRef.current
  error,                 \* the component's error state
  listener,              \* how the registered selection listener ends: "returns" or "throws"
  notifications,         \* selection notifications delivered by the last click
  diag,                  \* console output of the last click
  steps,                 \* appearance and state mutations of the last click, in order
  lastPick,              \* what the last click was and what it met
  lastEvent,             \* the last event handleCanvasClick received
  current,               \* entity of the last selecting click, None after a miss
  preAppearance,         \* appearance of current just before the click that selected it
  backToBack,            \* the first of two clicks one render received, and what a render between them gives
  cache,                 \* ModelManager: cache, model path -> object
  models,                \* the Object3D models created so far, by identity
  pendingLoads,          \* ModelManager: loadModel calls awaiting assetLoader
  held,                  \* the objects loadModel has returned to its callers
  loaded,                \* paths loaded with success and not removed or cleared since
  lastCall,              \* the last ModelManager operation and how it ended
  textInput,             \* aiUtils: the argument of textToSQL
  sqlResult,             \* aiUtils: what textToSQL resolved with, Unset before the call
  chartInput,            \* aiUtils: the argument of generateChartConfig
  chartResult,           \* aiUtils: what generateChartConfig resolved with
  truncInput,            \* truncateText: its arguments text, maxLength and suffix
  truncResult,           \* truncateText: the string returned or the exception thrown
  url,                   \* useDataFetching: the url argument of the hook
  data,                  \* useDataFetching: the data state
  isLoading,             \* useDataFetching: the isLoading state
  fetchError,            \* useDataFetching: the error state
  fetchCache,            \* useDataFetching: cache.current, sanitized url -> entry
  debounceTimeout,       \* useDataFetching: the timer behind debounceTimeout.current
  isMounted,             \* useDataFetching: isMounted.current
  retryCount,            \* useDataFetching: retryCount.current
  calls,                 \* useDataFetching: the fetchData calls made and where each stands
  skuToMap,              \* SKUMapper: the skuToMap state
  mappedMSKU,            \* SKUMapper: the mappedMSKU state
  skuValidationError,    \* SKUMapper: the skuValidationError state
  mappingData,           \* useSKUMapping: the mappingData state
  mappingDataCache,      \* useSKUMapping: mappingDataCache.current
  skuValidationCache,    \* useSKUMapping: skuValidationCache.current
  lastMap,               \* the SKU the last handleMapSKU ran with and mappedMSKU before it
  analysisCall,          \* useAIAnalysis: the call in progress and the await it stands at
  sqlQuery,              \* useAIAnalysis: the sqlQuery state
  chartConfig,           \* useAIAnalysis: the chartConfig state
  insights,              \* useAIAnalysis: the insights state
  analysisIsLoading,     \* useAIAnalysis: the isLoading state
  analysisError          \* useAIAnalysis: the error state

vars ==
  <<component, camera, scene, sceneGraph, material, emissive, emissiveIntensity, selectedObject,
    originalMaterialsRef, interactiveObjects, mouseRef, error, listener,
    notifications, diag, steps, lastPick, lastEvent, current, preAppearance, backToBack,
    cache, models, pendingLoads, held, loaded, lastCall, textInput, sqlResult,
    chartInput, chartResult, truncInput, truncResult,
    url, data, isLoading, fetchError, fetchCache, debounceTimeout, isMounted, retryCount, calls,
    skuToMap, mappedMSKU, skuValidationError, mappingData, mappingDataCache, skuValidationCache,
    lastMap, analysisCall, sqlQuery, chartConfig, insights, analysisIsLoading, analysisError>>

(* State of generateChartConfig.                                           *)
chartVars == <<chartInput, chartResult>>

(* State of the pages next to the viewers and of the functions they call.  *)
(* State of truncateText.                                                  *)
truncVars == <<truncInput, truncResult>>

(* State of the useDataFetching hook.                                      *)
fetchVars ==
  <<url, data, isLoading, fetchError, fetchCache, debounceTimeout, isMounted, retryCount, calls>>

(* State of the SKUMapper page and its useSKUMapping hook.                 *)
skuVars ==
  <<skuToMap, mappedMSKU, skuValidationError, mappingData, mappingDataCache, skuValidationCache,
    lastMap>>

(* State of the useAIAnalysis hook.                                        *)
analysisVars == <<analysisCall, sqlQuery, chartConfig, insights, analysisIsLoading, analysisError>>

pages == <<chartVars, truncVars, fetchVars, skuVars, analysisVars>>

(* State of the utility modules, which the viewers' handlers do not touch. *)
utilities == <<cache, models, pendingLoads, held, loaded, lastCall, textInput, sqlResult, pages>>

context == <<component, camera, scene, sceneGraph, listener, utilities>>

appearance == <<material, emissive, emissiveIntensity>>

selection == <<selectedObject, originalMaterialsRef>>

history == <<notifications, diag, steps, lastPick, lastEvent, current, preAppearance, backToBack>>

Components == {"use3DInteraction", "AdvancedScene", "WarehouseModel"}

(* The node fields the asset loader has set and the handlers only read.     *)
LoadedSceneGraph ==
  [n \in Nodes |-> [parent |-> Parent[n], selectable |-> IsSelectable(n), name |-> NodeName[n]]]

(* Emissive colours the loaded materials start with.                       *)
InitialEmissive ==
  [id \in Materials |-> IF id \in {"a1", "b1", "m1", "d"} THEN 16711680 ELSE IF id = "a2a" THEN 255 ELSE 0]

InitialIntensities == {10}

Step(op, node) == [op |-> op, node |-> node]

(* A selection notification: onObjectSelected(name), or an 'object-selected' *)
(* event whose detail is {name, object} or null.                            *)
Notification(name, object) == [detail |-> "selected", name |-> name, object |-> object]

NullNotification == [detail |-> "null", name |-> <<>>, object |-> None]

(***************************************************************************)
(* Appearance of a mesh: emissive colour and intensity of each material    *)
(* in its material field; <<>> for an entry without emissive property.     *)
(***************************************************************************)
MatAppearance(item, em, int) ==
  IF item.kind = "mat" /\ item.id \in HasEmissive THEN <<em[item.id], int[item.id]>> ELSE <<>>

MeshAppearance(m, mat, em, int) ==
  IF mat[m].kind = "arr"
  THEN [i \in 1..Len(mat[m].items) |-> MatAppearance(mat[m].items[i], em, int)]
  ELSE <<MatAppearance(mat[m], em, int)>>

EntityAppearance(n, mat, em, int) ==
  IF n = None THEN <<>>
  ELSE LET ms == SelectSeq(Traverse(n), LAMBDA c : c \in Meshes)
       IN  [i \in 1..Len(ms) |-> MeshAppearance(ms[i], mat, em, int)]

(* Materials an emissive write reaches through one material field:         *)
(* mat.emissive && mat.emissive.setHex(...), per array entry or directly.   *)
EmissiveTargets(v) ==
  IF v.kind = "arr"
  THEN {v.items[i].id : i \in {j \in 1..Len(v.items) : v.items[j].kind = "mat"}} \cap HasEmissive
  ELSE {v.id} \cap HasEmissive

(* The same materials in the order one material field is walked.           *)
EmissiveOrder(v) ==
  IF v.kind = "arr"
  THEN LET its == SelectSeq(v.items, LAMBDA it : it.kind = "mat" /\ it.id \in HasEmissive)
       IN  [i \in 1..Len(its) |-> its[i].id]
  ELSE IF v.id \in HasEmissive THEN <<v.id>> ELSE <<>>

(* SubtreeTargets without the traversal: the object's own material only.   *)
SubtreeTargetsOwnMeshOnly(object, mat) ==
  UNION {EmissiveTargets(mat[c]) : c \in {object} \cap Meshes}

SubtreeTargets(object, mat) ==
  UNION {EmissiveTargets(mat[c]) : c \in Subtree(object) \cap Meshes}

(* The traversal that calls emissive.setHex on the meshes of a subtree     *)
(* stops at the first malformed material, whose setHex call throws.        *)
Throws(object, mat) == object # None /\ SubtreeTargets(object, mat) \cap Malformed # {}

(* The materials whose setHex call completed.                              *)
ReachedTargets(object, mat) ==
  IF ~Throws(object, mat) THEN SubtreeTargets(object, mat)
  ELSE LET ms == SelectSeq(Traverse(object), LAMBDA c : c \in Meshes)
           order == Flatten([i \in 1..Len(ms) |-> EmissiveOrder(mat[ms[i]])])
           k == CHOOSE i \in 1..Len(order) :
                  order[i] \in Malformed /\ \A j \in 1..(i - 1) : order[j] \notin Malformed
       IN  {order[i] : i \in 1..(k - 1)}

(***************************************************************************)
(* AdvancedScene.                                                          *)
(***************************************************************************)
(* selectableObjects: the nodes of the model flagged selectable.           *)
selectableObjects == {n \in Subtree("Root") : IsSelectable(n)}

(* highlightObject, first half: put back the material references saved    *)
(* for the object the callback sees as selected.                           *)
RestoreOriginal(sel, entries, mat) ==
  IF sel = None \/ sel \notin DOMAIN entries THEN mat
  ELSE IF entries[sel].kind = "arr"
       THEN [c \in Meshes |->
               IF c \in Subtree(sel) /\ mat[c].kind = "arr" THEN Arr(entries[sel].items) ELSE mat[c]]
       ELSE IF sel \in Meshes THEN [mat EXCEPT ![sel] = entries[sel]] ELSE mat

(* SaveOriginal without the has(object) test: the snapshot is overwritten. *)
SaveOriginalAlways(object, entries, mat) ==
  IF object \in Meshes THEN [n \in DOMAIN entries \cup {object} |->
                               IF n = object THEN mat[object] ELSE entries[n]]
  ELSE LET ms == SelectSeq(Traverse(object), LAMBDA c : c \in Meshes)
       IN  [n \in DOMAIN entries \cup {object} |->
              IF n = object THEN Arr([i \in 1..Len(ms) |-> mat[ms[i]]]) ELSE entries[n]]

(* highlightObject: save the object's material references once.            *)
SaveOriginal(object, entries, mat) ==
  IF object \in DOMAIN entries THEN entries
  ELSE IF object \in Meshes THEN (object :> mat[object]) @@ entries
       ELSE LET ms == SelectSeq(Traverse(object), LAMBDA c : c \in Meshes)
            IN  (object :> Arr([i \in 1..Len(ms) |-> mat[ms[i]]])) @@ entries

(* SetHighlight reaching every mesh of the scene.                          *)
SetHighlightWholeScene(object, mat, em) ==
  LET targets == ReachedTargets("Root", mat)
  IN  [id \in Materials |-> IF id \in targets THEN HighlightHex ELSE em[id]]

(* highlightObject: emissive.setHex(0xffa500) on every mesh of the subtree *)
SetHighlight(object, mat, em) ==
  LET targets == ReachedTargets(object, mat)
  IN  [id \in Materials |-> IF id \in targets THEN HighlightHex ELSE em[id]]

(* highlightObject(object) as run by a callback that sees sel as selected. *)
(* Returns the fields it leaves behind; a throw inside the traversal goes  *)
(* to the catch, past setSelectedObject.                                   *)
highlightObject(object, sel, ref, mat, em) ==
  LET restored == RestoreOriginal(sel, ref.entries, mat)
      saved == IF object = None THEN ref.entries ELSE SaveOriginal(object, ref.entries, restored)
      log == (IF sel # None /\ sel \in DOMAIN ref.entries THEN <<Step("restore", sel)>> ELSE <<>>)
             \o (IF object # None /\ object \notin DOMAIN ref.entries
                 THEN <<Step("save", object)>> ELSE <<>>)
             \o (IF object # None THEN <<Step("highlight", object)>> ELSE <<>>)
             \o (IF Throws(object, restored) THEN <<Step("setError", object)>>
                 ELSE <<Step("setSelectedObject", object)>>)
  IN  [material |-> restored,
       emissive |-> IF object = None THEN em ELSE SetHighlight(object, restored, em),
       ref |-> [created |-> TRUE, entries |-> saved],
       pending |-> IF Throws(object, restored) THEN sel ELSE object,
       thrown |-> Throws(object, restored),
       steps |-> log]

(* console.error calls of a selecting click: one from highlightObject's    *)
(* catch, one from the handler's catch around the listener call.           *)
HandlerDiag(thrown, lst) ==
  (IF thrown THEN <<"error">> ELSE <<>>) \o (IF lst = "throws" THEN <<"error">> ELSE <<>>)

(* The error state those catches leave; the handler's setError comes last. *)
HandlerError(thrown, lst, err) ==
  IF lst = "throws" THEN "Error during raycasting"
  ELSE IF thrown THEN "Error highlighting object"
  ELSE err

(* AfterListener that drops the queued update when the listener throws.    *)
AfterListenerUnwound(lst, queued, sel) == IF lst = "throws" THEN sel ELSE queued

(* The selectedObject React commits after the handler: the update queued   *)
(* by highlightObject before onObjectSelected was called stays queued when *)
(* the listener throws into the handler's catch.                           *)
AfterListener(lst, queued, sel) == queued

(* ContextErrorAdvanced without the camera guards.                         *)
ContextErrorAdvancedNoCamera(cam, scn) ==
  IF scn = "none" THEN "Scene not initialized" ELSE None

(* The guards at the top of onCanvasClick: the message thrown, or None.    *)
ContextErrorAdvanced(cam, scn) ==
  IF cam = "none" THEN "Camera not initialized"
  ELSE IF cam # "perspective" THEN "Camera is not a PerspectiveCamera"
  ELSE IF scn = "none" THEN "Scene not initialized"
  ELSE None

(* ResolveEntity testing the struck object instead of its parent.          *)
ResolveEntitySelf(struck) ==
  IF struck = None THEN None
  ELSE IF IsSelectable(struck) THEN struck
  ELSE IF Parent[struck] # None /\ IsSelectable(Parent[struck]) THEN Parent[struck] ELSE None

(* const object = intersects[0].object.parent, kept when flagged selectable *)
ResolveEntity(struck) ==
  IF struck = None THEN None
  ELSE IF Parent[struck] # None /\ IsSelectable(Parent[struck]) THEN Parent[struck] ELSE None

Pick(outcome, struck, entity, e, divided, repick) ==
  [outcome |-> outcome, struck |-> struck, entity |-> entity,
   degenerate |-> Degenerate(e), divByZero |-> divided, repick |-> repick]

NoPick == Pick(None, None, None, Event(0, 0, 0, 0, 1, 1, <<>>), FALSE, FALSE)

NoBackToBack == [first |-> None, before |-> <<>>, rendered |-> <<>>]

(* Bookkeeping common to the handlers: which click this was.               *)
Record(outcome, struck, entity, e, divided) ==
  /\ lastPick' = Pick(outcome, struck, entity, e, divided, outcome = "select" /\ entity = current)
  /\ current' = IF outcome = "select" THEN entity ELSE IF outcome = "miss" THEN None ELSE current
  /\ preAppearance' =
       IF outcome = "select" /\ entity # current
       THEN EntityAppearance(entity, material, emissive, emissiveIntensity)
       ELSE IF outcome = "miss" THEN <<>> ELSE preAppearance
  /\ backToBack' = NoBackToBack

onCanvasClick(e) ==
  /\ component = "AdvancedScene"
  /\ UNCHANGED <<context, emissiveIntensity, interactiveObjects, mouseRef, lastEvent>>
  /\ IF ContextErrorAdvanced(camera, scene) # None
     THEN /\ diag' = <<"error">>
          /\ error' = ContextErrorAdvanced(camera, scene)
          /\ notifications' = <<>>
          /\ steps' = <<>>
          /\ Record("uninitialized", None, None, e, FALSE)
          /\ UNCHANGED <<material, emissive, selectedObject, originalMaterialsRef>>
     ELSE LET mouse == [x |-> NormalizeX(e.x, e.left, e.width), y |-> NormalizeY(e.y, e.top, e.height)]
              intersects == IntersectObjects(selectableObjects, e, mouse)
              struck == IF Len(intersects) > 0 THEN intersects[1] ELSE None
              object == ResolveEntity(struck)
              h == highlightObject(object, selectedObject, originalMaterialsRef, material, emissive)
          IN  IF struck # None /\ object = None
              THEN /\ diag' = <<>>
                   /\ error' = error
                   /\ notifications' = <<>>
                   /\ steps' = <<>>
                   /\ UNCHANGED <<material, emissive, selectedObject, originalMaterialsRef>>
                   /\ Record("nonselectable", struck, None, e, Degenerate(e))
              ELSE /\ material' = h.material
                   /\ emissive' = h.emissive
                   /\ originalMaterialsRef' = h.ref
                   /\ selectedObject' = AfterListener(listener, h.pending, selectedObject)
                   /\ IF object # None
                      THEN /\ diag' = HandlerDiag(h.thrown, listener)
                           /\ error' = HandlerError(h.thrown, listener, error)
                           /\ notifications' = <<Notification(NodeName[object], None)>>
                           /\ steps' = h.steps \o <<Step("onObjectSelected", object)>>
                           /\ Record(IF h.thrown THEN "failed" ELSE "select", struck, object, e,
                                     Degenerate(e))
                      ELSE /\ diag' = <<>>
                           /\ error' = error
                           /\ notifications' = <<>>
                           /\ steps' = h.steps \o <<Step("setSelectedObject", None)>>
                           /\ Record("miss", None, None, e, Degenerate(e))

(* Two clicks handled by the onCanvasClick of one render: React has not    *)
(* re-rendered between them, so the second call runs the highlightObject   *)
(* callback that still closes over the selectedObject of that render,      *)
(* while the materials and originalMaterialsRef.current carry what the     *)
(* first call did.  The first click resolves to an entity; the second      *)
(* resolves to an entity or hits nothing.                                  *)
onCanvasClickTwice(e1, e2) ==
  /\ component = "AdvancedScene"
  /\ ContextErrorAdvanced(camera, scene) = None
  /\ UNCHANGED <<context, emissiveIntensity, interactiveObjects, mouseRef, lastEvent, error>>
  /\ LET mouse1 == [x |-> NormalizeX(e1.x, e1.left, e1.width), y |-> NormalizeY(e1.y, e1.top, e1.height)]
         intersects1 == IntersectObjects(selectableObjects, e1, mouse1)
         struck1 == IF Len(intersects1) > 0 THEN intersects1[1] ELSE None
         object1 == ResolveEntity(struck1)
         mouse2 == [x |-> NormalizeX(e2.x, e2.left, e2.width), y |-> NormalizeY(e2.y, e2.top, e2.height)]
         intersects2 == IntersectObjects(selectableObjects, e2, mouse2)
         struck2 == IF Len(intersects2) > 0 THEN intersects2[1] ELSE None
         object2 == ResolveEntity(struck2)
         before1 == IF object1 = current THEN preAppearance
                    ELSE EntityAppearance(object1, material, emissive, emissiveIntensity)
     IN  /\ object1 # None
         /\ struck2 # None => object2 # None
         /\ \E h1 \in {highlightObject(object1, selectedObject, originalMaterialsRef, material, emissive)} :
            \E h2 \in {highlightObject(object2, selectedObject, h1.ref, h1.material, h1.emissive)} :
            \E r2 \in {highlightObject(object2, h1.pending, h1.ref, h1.material, h1.emissive)} :
              /\ material' = h2.material
              /\ emissive' = h2.emissive
              /\ originalMaterialsRef' = h2.ref
              /\ ~h1.thrown /\ ~h2.thrown
              /\ listener = "returns"
              /\ selectedObject' = h2.pending
              /\ diag' = <<>>
              /\ notifications' = <<Notification(NodeName[object1], None)>>
                                  \o (IF object2 # None THEN <<Notification(NodeName[object2], None)>> ELSE <<>>)
              /\ steps' = h1.steps \o <<Step("onObjectSelected", object1)>> \o h2.steps
                          \o <<IF object2 # None THEN Step("onObjectSelected", object2)
                               ELSE Step("setSelectedObject", None)>>
              /\ lastPick' = Pick(IF object2 # None THEN "select" ELSE "miss", struck2, object2, e2,
                                  Degenerate(e2), object2 = object1)
              /\ current' = object2
              /\ preAppearance' = IF object2 = None THEN <<>>
                                  ELSE IF object2 = object1 THEN before1
                                  ELSE EntityAppearance(object2, h1.material, h1.emissive, emissiveIntensity)
              /\ backToBack' = [first |-> object1, before |-> before1,
                                rendered |-> <<r2.material, r2.emissive, r2.pending, r2.ref>>]

(***************************************************************************)
(* WarehouseModel.                                                         *)
(***************************************************************************)
(* loadModel: the nodes whose userData.interactive is true.                *)
LoadedInteractiveObjects == {n \in Subtree("Root") : IsSelectable(n)}

loadModel ==
  /\ component = "WarehouseModel"
  /\ interactiveObjects = {}
  /\ interactiveObjects' = LoadedInteractiveObjects
  /\ UNCHANGED <<context, appearance, selection, mouseRef, error, history>>

(* highlightObject(object): emissive 0xffa500 and emissiveIntensity 0.5 on *)
(* every mesh of the subtree; nothing for null.                            *)
highlightObjectWM(object, mat, em, int) ==
  IF object = None THEN [emissive |-> em, intensity |-> int, thrown |-> FALSE]
  ELSE LET targets == ReachedTargets(object, mat)
       IN  [emissive |-> [id \in Materials |-> IF id \in targets THEN HighlightHex ELSE em[id]],
            intensity |-> [id \in Materials |->
                             IF id \in targets THEN HighlightIntensityTenths ELSE int[id]],
            thrown |-> Throws(object, mat)]

(* unhighlightObject(object): emissive 0x000000 and emissiveIntensity 0 on *)
(* every mesh of the subtree; nothing for null.                            *)
unhighlightObject(object, mat, em, int) ==
  IF object = None THEN [emissive |-> em, intensity |-> int, thrown |-> FALSE]
  ELSE LET targets == ReachedTargets(object, mat)
       IN  [emissive |-> [id \in Materials |-> IF id \in targets THEN UnhighlightHex ELSE em[id]],
            intensity |-> [id \in Materials |->
                             IF id \in targets THEN UnhighlightIntensityTenths ELSE int[id]],
            thrown |-> Throws(object, mat)]

(* The object raycast passes to unhighlightObject before highlighting.     *)
UnhighlightArgument(previous) == None

ContextErrorWarehouse(cam, scn) ==
  IF cam # "perspective" THEN "Camera not initialized or is not a PerspectiveCamera"
  ELSE IF scn = "none" THEN "Scene not initialized"
  ELSE None

(* const object = intersects[0].object.parent, kept when listed interactive *)
ResolveInteractive(struck, objects) ==
  IF struck = None THEN None
  ELSE IF Parent[struck] # None /\ Parent[struck] \in objects THEN Parent[struck] ELSE None

raycast(e) ==
  /\ component = "WarehouseModel"
  /\ UNCHANGED <<context, material, selection, interactiveObjects, mouseRef, lastEvent>>
  /\ IF ContextErrorWarehouse(camera, scene) # None
     THEN /\ diag' = <<"error">>
          /\ error' = ContextErrorWarehouse(camera, scene)
          /\ notifications' = <<>>
          /\ steps' = <<>>
          /\ Record("uninitialized", None, None, e, FALSE)
          /\ UNCHANGED <<emissive, emissiveIntensity>>
     ELSE LET mouse == [x |-> NormalizeX(e.x, e.left, e.width), y |-> NormalizeY(e.y, e.top, e.height)]
              intersects == IntersectObjects(interactiveObjects, e, mouse)
              struck == IF Len(intersects) > 0 THEN intersects[1] ELSE None
              object == ResolveInteractive(struck, interactiveObjects)
              u == unhighlightObject(UnhighlightArgument(current), material, emissive, emissiveIntensity)
              h == highlightObjectWM(object, material, u.emissive, u.intensity)
          IN  IF struck # None /\ object = None
              THEN /\ diag' = <<>>
                   /\ error' = error
                   /\ notifications' = <<>>
                   /\ steps' = <<>>
                   /\ UNCHANGED <<emissive, emissiveIntensity>>
                   /\ Record("nonselectable", struck, None, e, Degenerate(e))
              ELSE IF object # None
              THEN /\ emissive' = h.emissive
                   /\ emissiveIntensity' = h.intensity
                   /\ diag' = HandlerDiag(h.thrown, listener)
                   /\ error' = HandlerError(h.thrown, listener, error)
                   /\ notifications' = <<Notification(NodeName[object], None)>>
                   /\ steps' = <<Step("unhighlight", UnhighlightArgument(current)),
                                 Step("highlight", object)>>
                               \o (IF h.thrown THEN <<Step("setError", object)>> ELSE <<>>)
                               \o <<Step("onObjectSelected", object)>>
                   /\ Record(IF h.thrown THEN "failed" ELSE "select", struck, object, e,
                             Degenerate(e))
              ELSE /\ emissive' = u.emissive
                   /\ emissiveIntensity' = u.intensity
                   /\ diag' = <<>>
                   /\ error' = error
                   /\ notifications' = <<>>
                   /\ steps' = <<Step("unhighlight", UnhighlightArgument(current))>>
                   /\ Record("miss", None, None, e, Degenerate(e))

(***************************************************************************)
(* use3DInteraction.                                                       *)
(***************************************************************************)
(* The guards at the top of handleCanvasClick.                             *)
ContextErrorHook(cam, scn) ==
  IF scn = "none" THEN "Scene is not initialized"
  ELSE IF cam = "none" THEN "Camera is not initialized"
  ELSE None

handleCanvasClick(e) ==
  /\ component = "use3DInteraction"
  /\ lastEvent' = e
  /\ UNCHANGED <<context, appearance, selection, interactiveObjects, error>>
  /\ IF ContextErrorHook(camera, scene) # None
     THEN /\ diag' = <<"error">>
          /\ notifications' = <<>>
          /\ steps' = <<>>
          /\ mouseRef' = mouseRef
          /\ Record("uninitialized", None, None, e, FALSE)
     ELSE LET normalizedMouseX == NormalizeX(e.x, e.left, e.width)
              normalizedMouseY == NormalizeY(e.y, e.top, e.height)
              mouse == [x |-> normalizedMouseX, y |-> normalizedMouseY]
              intersects == IntersectObjects(SeqToSet(ChildrenOf("Root")), e, mouse)
              struck == IF Len(intersects) > 0 THEN intersects[1] ELSE None
              intersectedObject == ResolveEntity(struck)
          IN  IF e.width = 0 \/ e.height = 0
              THEN /\ diag' = <<"warn">>
                   /\ notifications' = <<>>
                   /\ steps' = <<>>
                   /\ mouseRef' = mouseRef
                   /\ Record("abandoned", None, None, e, TRUE)
              ELSE /\ mouseRef' = mouse
                   /\ steps' = <<>>
                   /\ IF struck = None
                      THEN /\ diag' = <<>>
                           /\ notifications' = <<NullNotification>>
                           /\ Record("miss", None, None, e, FALSE)
                      ELSE IF intersectedObject # None
                      THEN /\ diag' = <<>>
                           /\ notifications' =
                                <<Notification(Sanitize(NodeName[intersectedObject]), intersectedObject)>>
                           /\ Record("select", struck, intersectedObject, e, FALSE)
                      ELSE /\ diag' = IF Parent[struck] = None THEN <<"warn">> ELSE <<>>
                           /\ notifications' = <<>>
                           /\ Record("nonselectable", struck, None, e, FALSE)

(***************************************************************************)
(* The rendering subsystem supplies or withdraws the camera and the scene. *)
(***************************************************************************)
Cameras == {"none", "perspective", "orthographic"}

Scenes == {"none", "present"}

SetContext ==
  /\ \E cam \in Cameras, scn \in Scenes :
       /\ <<cam, scn>> # <<camera, scene>>
       /\ cam = "perspective" \/ scn = "present"
       /\ (camera = "perspective" /\ scene = "present") \/ (cam = "perspective" /\ scn = "present")
       /\ camera' = cam
       /\ scene' = scn
  /\ UNCHANGED <<component, sceneGraph, listener, utilities, appearance, selection, interactiveObjects,
                 mouseRef, error, history>>

(***************************************************************************)
(* ModelManager (utils/modelManager.ts).  A model path is a sequence of    *)
(* characters; a model is named by its position in models and carries     *)
(* whether a caller has mutated it.  disposeModel frees the GPU resources  *)
(* of a model and changes no field that cloneModel copies.                 *)
(***************************************************************************)
MaxObjects == 3
MaxPending == 1

viewer ==
  <<component, camera, scene, sceneGraph, listener, appearance, selection, interactiveObjects,
    mouseRef, error, history>>

modelManager == <<cache, models, pendingLoads, held, loaded, lastCall>>

aiUtils == <<textInput, sqlResult>>

PathA == <<"a", ".", "g", "l", "b">>

PathB == <<"b", ".", "g", "l", "t", "f">>

ModelPaths == {PathA, PathB, <<>>, <<" ">>, <<"a", ".", "t", "x", "t">>}

(* The characters of [a-zA-Z0-9\\/._-] that occur in the paths.            *)
SafePathChars == {"a", "b", "g", "l", "t", "f", "x", ".", "/", "_", "-"}

EndsWith(s, suffix) ==
  /\ Len(s) >= Len(suffix)
  /\ SubSeq(s, Len(s) - Len(suffix) + 1, Len(s)) = suffix

(* /^[a-zA-Z0-9\\/._-]+(?:.glb|.gltf)$/ : one or more safe characters,     *)
(* then any one character and glb or gltf.                                 *)
MatchesWith(s, ext) ==
  /\ EndsWith(s, ext)
  /\ Len(s) - Len(ext) - 1 >= 1
  /\ \A i \in 1..(Len(s) - Len(ext) - 1) : s[i] \in SafePathChars

safeModelPathRegex(s) == MatchesWith(s, <<"g", "l", "b">>) \/ MatchesWith(s, <<"g", "l", "t", "f">>)

(* The two tests at the top of loadModel: the message thrown, or None.     *)
PathError(modelPath) ==
  IF modelPath = <<>> \/ \A i \in 1..Len(modelPath) : modelPath[i] = " "
  THEN "Invalid modelPath provided"
  ELSE IF ~safeModelPathRegex(modelPath) THEN "Invalid modelPath format"
  ELSE None

(* The scene of a freshly loaded gltf, after optimizeModel.                *)
LoadedScene == [tainted |-> FALSE]

(* cloneModel: a deep copy, with its own materials and geometries.         *)
cloneModel(source) == [tainted |-> source.tainted]

Call(op, modelPath, forceReload, outcome, returned, invoked) ==
  [op |-> op, modelPath |-> modelPath, forceReload |-> forceReload, outcome |-> outcome,
   returned |-> returned, invoked |-> invoked]

NoCall == Call(None, <<>>, FALSE, None, 0, FALSE)

(* CacheHit that does not look at forceReload.                             *)
CacheHitIgnoringForce(modelPath, forceReload) == modelPath \in DOMAIN cache

(* this.cache.has(modelPath) && !forceReload                               *)
CacheHit(modelPath, forceReload) == modelPath \in DOMAIN cache /\ ~forceReload

(* loadModel up to its return or to the await of assetLoader.              *)
ModelManager_loadModel(modelPath, forceReload) ==
  /\ UNCHANGED <<viewer, aiUtils, pages, cache, loaded>>
  /\ IF PathError(modelPath) # None
     THEN /\ lastCall' = Call("loadModel", modelPath, forceReload, "throws", 0, FALSE)
          /\ UNCHANGED <<models, pendingLoads, held>>
     ELSE IF CacheHit(modelPath, forceReload)
     THEN /\ Len(models) < MaxObjects
          /\ models' = Append(models, cloneModel(models[cache[modelPath]]))
          /\ held' = held \cup {Len(models) + 1}
          /\ lastCall' = Call("loadModel", modelPath, forceReload, "returns", Len(models) + 1, FALSE)
          /\ UNCHANGED pendingLoads
     ELSE /\ Cardinality(pendingLoads) < MaxPending
          /\ [modelPath |-> modelPath, forceReload |-> forceReload] \notin pendingLoads
          /\ pendingLoads' = pendingLoads \cup {[modelPath |-> modelPath, forceReload |-> forceReload]}
          /\ lastCall' = Call("loadModel", modelPath, forceReload, "awaits", 0, TRUE)
          /\ UNCHANGED <<models, held>>

(* What the awaited assetLoader gives: a gltf with a scene, a gltf whose   *)
(* scene is no Object3D, or a rejection.                                   *)
LoaderResults == {"scene", "noObject3D", "rejected"}

(* The loadModel calls that can be awaiting assetLoader.                   *)
LoadCalls == [modelPath : {p \in ModelPaths : PathError(p) = None}, forceReload : BOOLEAN]

(* loadModel from the await on: optimize, clone, cache and return the      *)
(* clone, or throw 'Failed to load model'.                                 *)
ModelManager_loadModelResumes(call, gltf) ==
  /\ call \in pendingLoads
  /\ pendingLoads' = pendingLoads \ {call}
  /\ UNCHANGED <<viewer, aiUtils, pages>>
  /\ IF gltf = "scene"
     THEN /\ Len(models) < MaxObjects
          /\ models' = Append(models, cloneModel(LoadedScene))
          /\ cache' = (call.modelPath :> (Len(models) + 1)) @@ cache
          /\ held' = held \cup {Len(models) + 1}
          /\ loaded' = loaded \cup {call.modelPath}
          /\ lastCall' = Call("loadModel", call.modelPath, call.forceReload, "returns",
                              Len(models) + 1, FALSE)
     ELSE /\ lastCall' = Call("loadModel", call.modelPath, call.forceReload, "throws", 0, FALSE)
          /\ UNCHANGED <<cache, models, held, loaded>>

(* getModel: the cached object or null; the cache is left as it is.        *)
getModel(modelPath) ==
  /\ lastCall' = Call("getModel", modelPath, FALSE, "returns", 0, FALSE)
  /\ UNCHANGED <<viewer, aiUtils, pages, cache, models, pendingLoads, held, loaded>>

removeModel(modelPath) ==
  /\ UNCHANGED <<viewer, aiUtils, pages, models, pendingLoads, held>>
  /\ lastCall' = Call("removeModel", modelPath, FALSE, "returns", 0, FALSE)
  /\ IF modelPath \in DOMAIN cache
     THEN /\ cache' = [p \in DOMAIN cache \ {modelPath} |-> cache[p]]
          /\ loaded' = loaded \ {modelPath}
     ELSE UNCHANGED <<cache, loaded>>

clearCache ==
  /\ UNCHANGED <<viewer, aiUtils, pages, models, pendingLoads, held>>
  /\ lastCall' = Call("clearCache", <<>>, FALSE, "returns", 0, FALSE)
  /\ cache' = <<>>
  /\ loaded' = {}

(* A caller changes a model that loadModel returned to it.                 *)
MutateModel(o) ==
  /\ o \in held
  /\ ~models[o].tainted
  /\ models' = [models EXCEPT ![o].tainted = TRUE]
  /\ lastCall' = Call("mutate", <<>>, FALSE, "returns", 0, FALSE)
  /\ UNCHANGED <<viewer, aiUtils, pages, cache, pendingLoads, held, loaded>>

ModelManagerInit ==
  /\ cache = <<>>
  /\ models = <<>>
  /\ pendingLoads = {}
  /\ held = {}
  /\ loaded = {}
  /\ lastCall = NoCall

(***************************************************************************)
(* aiUtils.textToSQL (utils/aiUtils.ts) with dataUtils.sanitizeString.     *)
(* A string is a sequence of characters.                                   *)
(***************************************************************************)
MaxWords == 3
MaxInputLength == 500

Null == "null"

Unset == "unset"

Sales == <<"s", "a", "l", "e", "s">>

Products == <<"p", "r", "o", "d", "u", "c", "t", "s">>

Returns == <<"r", "e", "t", "u", "r", "n", "s">>

(* A run of x that leaves room for 'sales' and one more character within   *)
(* the length limit.                                                       *)
Filler == [i \in 1..(MaxInputLength - Len(Sales) - 1) |-> "x"]

(* <script>alert('XSS')</script>                                           *)
ScriptTag ==
  <<"<", "s", "c", "r", "i", "p", "t", ">", "a", "l", "e", "r", "t", "(", "'", "X", "S", "S", "'", ")",
    "<", "/", "s", "c", "r", "i", "p", "t", ">">>

Words ==
  {Sales, Products, Returns, <<"s", "a", "l", "e">>, <<"s">>, <<" ">>, <<"<">>, <<"&">>,
   ScriptTag, Filler \o Sales}

Str(chars) == [kind |-> "string", chars |-> chars]

(* The arguments tried: texts of up to MaxWords words, and undefined.      *)
TextInputs ==
  {Str(Flatten(ws)) : ws \in UNION {[1..n -> Words] : n \in 0..MaxWords}}
  \cup {[kind |-> "undefined", chars |-> <<>>]}

(* The replacement callback of sanitizeString.                             *)
Escape(ch) ==
  CASE ch = "<" -> <<"&", "l", "t", ";">>
    [] ch = ">" -> <<"&", "g", "t", ";">>
    [] ch = "&" -> <<"&", "a", "m", "p", ";">>
    [] ch = "\"" -> <<"&", "q", "u", "o", "t", ";">>
    [] ch = "'" -> <<"&", "#", "3", "9", ";">>
    [] OTHER -> <<ch>>

(* sanitizeString that returns its argument.                               *)
sanitizeStringIdentity(str) == str

(* str.replace(/[<>&"']/g, ...): every character replaced by its escape.   *)
RECURSIVE sanitizeString(_)
sanitizeString(str) ==
  IF Len(str) = 0 THEN <<>>
  ELSE IF Len(str) = 1 THEN Escape(str[1])
  ELSE LET half == Len(str) \div 2
       IN  sanitizeString(SubSeq(str, 1, half)) \o sanitizeString(SubSeq(str, half + 1, Len(str)))

(* String.prototype.includes                                               *)
Includes(s, word) ==
  \E i \in 1..(Len(s) - Len(word) + 1) : \A j \in 1..Len(word) : s[i + j - 1] = word[j]

(* The value the promise of textToSQL(input) resolves with.                *)
TextToSQL(input) ==
  IF input.kind # "string" \/ input.chars = <<>> THEN Null
  ELSE LET sanitizedInput == sanitizeString(input.chars)
       IN  IF Len(sanitizedInput) > MaxInputLength THEN Null
           ELSE IF Includes(sanitizedInput, Sales) THEN "SELECT * FROM sales LIMIT 10"
           ELSE IF Includes(sanitizedInput, Products) THEN "SELECT * FROM products LIMIT 10"
           ELSE IF Includes(sanitizedInput, Returns) THEN "SELECT * FROM returns LIMIT 10"
           ELSE Null

textToSQL ==
  /\ sqlResult = Unset
  /\ sqlResult' = TextToSQL(textInput)
  /\ UNCHANGED <<viewer, modelManager, textInput, pages>>

AiUtilsInit ==
  /\ textInput = Str(<<>>)
  /\ sqlResult = Unset

(***************************************************************************)
(* aiUtils.generateChartConfig (utils/aiUtils.ts).  An item of the data    *)
(* array is a number, null, or an object with its own properties; a        *)
(* property holds a number or a string.                                    *)
(***************************************************************************)
MaxItems == 2

Num(n) == [kind |-> "number", value |-> n]

Obj(props) == [kind |-> "object", props |-> props]

IsObject(item) == item.kind = "object"

HasOwnProperty(item, p) == item.kind = "object" /\ p \in DOMAIN item.props

(* Items of the arrays tried, those of testGenerateChartConfig among them. *)
Items ==
  {Num(1), [kind |-> "null"], Obj(<<>>),
   Obj([p \in {"revenue"} |-> Num(10)]),
   Obj([p \in {"revenue"} |-> Num(20)]),
   Obj([p \in {"revenue"} |-> [kind |-> "string", value |-> "n/a"]]),
   Obj([p \in {"quantity"} |-> Num(5)]),
   Obj([p \in {"quantity", "revenue"} |-> IF p = "quantity" THEN Num(5) ELSE Num(10)])}

(* The arguments tried: arrays of up to MaxItems items, and undefined.     *)
ChartInputs ==
  {[kind |-> "array", items |-> d] : d \in UNION {[1..n -> Items] : n \in 0..MaxItems}}
  \cup {[kind |-> "undefined", items |-> <<>>]}

(* typeof item.p === 'number' ? item.p : 0                                 *)
NumberOrZero(item, p) ==
  IF HasOwnProperty(item, p) /\ item.props[p].kind = "number" THEN item.props[p].value ELSE 0

ChartConfig(type, label, chartData) ==
  [kind |-> "config", type |-> type, label |-> label, labels |-> [i \in 1..Len(chartData) |-> i],
   data |-> chartData, borderWidth |-> 1, beginAtZero |-> TRUE]

(* null, as generateChartConfig returns it.                                *)
NoConfig == [kind |-> "null"]

(* The promise of generateChartConfig before the call.                     *)
NoChartResult == [kind |-> "unset"]

(* binding = value where binding is declared with const: the assignment    *)
(* throws a TypeError and the binding keeps its value.                     *)
AssignToConst(binding, value) == [thrown |-> TRUE, value |-> binding]

(* The value the promise of generateChartConfig(data) resolves with; an    *)
(* exception thrown in its try block ends in the catch block's null.       *)
GenerateChartConfig(input) ==
  LET rows == input.items
      ones == [i \in 1..Len(rows) |-> 1]
  IN  IF input.kind # "array" \/ Len(rows) = 0 THEN NoConfig
      ELSE IF \A i \in 1..Len(rows) : ~IsObject(rows[i]) THEN NoConfig
      ELSE IF rows[1].kind = "null" THEN NoConfig
      ELSE IF HasOwnProperty(rows[1], "revenue")
           THEN LET assigned ==
                      AssignToConst(ones, [i \in 1..Len(rows) |-> NumberOrZero(rows[i], "revenue")])
                IN  IF assigned.thrown THEN NoConfig
                    ELSE ChartConfig("bar", "Revenue Distribution", assigned.value)
      ELSE IF HasOwnProperty(rows[1], "quantity")
           THEN LET assigned ==
                      AssignToConst(ones, [i \in 1..Len(rows) |-> NumberOrZero(rows[i], "quantity")])
                IN  IF assigned.thrown THEN NoConfig
                    ELSE ChartConfig("line", "Quantity Trends", assigned.value)
      ELSE ChartConfig("pie", "Data Distribution", ones)

generateChartConfig ==
  /\ chartResult = NoChartResult
  /\ chartResult' = GenerateChartConfig(chartInput)
  /\ UNCHANGED <<viewer, modelManager, textInput, sqlResult, chartInput, truncVars, fetchVars, skuVars,
                 analysisVars>>

ChartInit ==
  /\ chartInput = [kind |-> "undefined", items |-> <<>>]
  /\ chartResult = NoChartResult

(***************************************************************************)
(* truncateText of the format module and of dataUtils (the two copies are  *)
(* the same code).                                                         *)
(***************************************************************************)
MaxTextLength == 4

(* The default value of the suffix parameter.                              *)
DefaultSuffix == <<".", ".", ".">>

(* The arguments tried: the prefixes of 'abcdefgh' up to MaxTextLength     *)
(* characters, every maxLength from -1 to one more than that, and the      *)
(* default suffix and two shorter ones.                                    *)
TruncInputs ==
  [text : {SubSeq(<<"a", "b", "c", "d", "e", "f", "g", "h">>, 1, n) : n \in 0..MaxTextLength},
   maxLength : (0 - 1)..(MaxTextLength + 1),
   suffix : {<<>>, <<"~">>, DefaultSuffix}]

Min(a, b) == IF a < b THEN a ELSE b

Max(a, b) == IF a > b THEN a ELSE b

(* String.prototype.substring: both indices are clamped to 0..length and   *)
(* swapped when the first exceeds the second.                              *)
Substring(s, start, end) ==
  LET a == Min(Max(start, 0), Len(s))
      b == Min(Max(end, 0), Len(s))
  IN  SubSeq(s, Min(a, b) + 1, Max(a, b))

Returned(chars) == [kind |-> "returns", chars |-> chars]

Thrown(message) == [kind |-> "throws", chars |-> message]

NoTruncResult == [kind |-> "unset", chars |-> <<>>]

(* truncateText(text, maxLength, suffix)                                   *)
TruncateText(text, maxLength, suffix) ==
  IF maxLength < 0 THEN Thrown("Max Length cannot be a negative number.")
  ELSE IF Len(text) <= maxLength THEN Returned(text)
  ELSE LET truncatedText == Substring(text, 0, maxLength - Len(suffix))
       IN  Returned(truncatedText \o suffix)

truncateText ==
  /\ truncResult = NoTruncResult
  /\ truncResult' = TruncateText(truncInput.text, truncInput.maxLength, truncInput.suffix)
  /\ UNCHANGED <<viewer, modelManager, aiUtils, chartVars, truncInput, fetchVars, skuVars,
                 analysisVars>>

TruncInit ==
  /\ truncInput = [text |-> <<>>, maxLength |-> 0, suffix |-> DefaultSuffix]
  /\ truncResult = NoTruncResult

(***************************************************************************)
(* The useDataFetching hook (hooks/useDataFetching).  A fetchData call is  *)
(* a process: it is at "request" while axios.get is pending, at "backoff"  *)
(* while the timer before a retry is pending, and "settled" once no work   *)
(* of it is left.  State updates take effect where the code queues them.   *)
(***************************************************************************)
MaxCalls == 2
maxRetries == 3

CallIds == 1..MaxCalls

HttpScheme == <<"h", "t", "t", "p", ":", "/", "/">>

(* A url that passes validateURL, one that sanitizeURL shortens, and one   *)
(* that validateURL rejects.                                               *)
Urls == {HttpScheme \o <<"h">>, HttpScheme \o <<"h", "<", "x">>, <<"h">>}

StartsWith(s, prefix) == Len(s) >= Len(prefix) /\ SubSeq(s, 1, Len(prefix)) = prefix

(* /^(ftp|http|https):\/\/[^ "]+$/                                          *)
validateURL(u) ==
  \E scheme \in {<<"f", "t", "p">>, <<"h", "t", "t", "p">>, <<"h", "t", "t", "p", "s">>} :
    LET prefix == scheme \o <<":", "/", "/">>
    IN  /\ StartsWith(u, prefix)
        /\ Len(u) > Len(prefix)
        /\ \A i \in (Len(prefix) + 1)..Len(u) : u[i] \notin {" ", "\""}

(* url.replace(/[^a-zA-Z0-9/:%#...~]+/g, ''): of the characters of the     *)
(* urls tried, < > blank and the double quote are outside the class.       *)
sanitizeURL(u) == SelectSeq(u, LAMBDA ch : ch \notin {"<", ">", " ", "\""})

RECURSIVE Pow2(_)
Pow2(n) == IF n = 0 THEN 1 ELSE 2 * Pow2(n - 1)

(* Math.pow(2, retryCount.current) * 1000                                  *)
BackoffDelay(count) == Pow2(count) * 1000

(* A call that has not been made yet.                                      *)
NoFetch == [pc |-> "idle", outcome |-> None, attempts |-> 0, waits |-> <<>>, alone |-> TRUE]

Active(c) == calls[c].pc \in {"request", "backoff"}

(* The kinds of error axios.get rejects with.                              *)
AxiosErrors == {"response", "request", "message"}

FetchFailure(kind) == [message |-> "Failed to fetch data from URL", detail |-> kind]

InvalidUrl == [message |-> "Invalid URL provided.", detail |-> None]

(* The error state when it is null.                                        *)
NoFetchError == [message |-> None, detail |-> None]

(* cachedData && now < cachedData.expiry                                   *)
CacheFresh(key) == key \in DOMAIN fetchCache /\ fetchCache[key].fresh

(* fetchData(), up to the first await of fetchDataAttempt.                 *)
FetchDataBody(c) ==
  /\ calls[c].pc = "idle"
  /\ \A d \in CallIds : d < c => calls[d].pc # "idle"
  /\ LET alone == \A d \in CallIds : ~Active(d)
         settle(outcome) == [calls EXCEPT ![c] = [NoFetch EXCEPT !.pc = "settled", !.outcome = outcome]]
     IN  IF ~isMounted
         THEN /\ calls' = settle("unmounted")
              /\ UNCHANGED <<data, isLoading, fetchError>>
         ELSE IF ~validateURL(url)
         THEN /\ fetchError' = InvalidUrl
              /\ calls' = settle("invalid")
              /\ UNCHANGED <<data, isLoading>>
         ELSE IF CacheFresh(sanitizeURL(url))
         THEN /\ data' = fetchCache[sanitizeURL(url)].data
              /\ isLoading' = FALSE
              /\ fetchError' = NoFetchError
              /\ calls' = [d \in CallIds |->
                             IF d = c THEN [NoFetch EXCEPT !.pc = "settled", !.outcome = "cached"]
                             ELSE [calls[d] EXCEPT !.alone = @ /\ ~Active(d)]]
         ELSE /\ isLoading' = TRUE
              /\ fetchError' = NoFetchError
              /\ calls' = [d \in CallIds |->
                             IF d = c THEN [NoFetch EXCEPT !.pc = "request", !.attempts = 1, !.alone = alone]
                             ELSE [calls[d] EXCEPT !.alone = @ /\ ~Active(d)]]
              /\ UNCHANGED data
  /\ UNCHANGED <<url, fetchCache, isMounted, retryCount>>

(* fetchData called by the component that uses the hook.                   *)
fetchData(c) ==
  /\ FetchDataBody(c)
  /\ UNCHANGED <<viewer, modelManager, aiUtils, chartVars, truncVars, skuVars, analysisVars,
                 debounceTimeout>>

(* The 200 ms timer of the effect fires and calls fetchData.               *)
throttledFetchData(c) ==
  /\ debounceTimeout = "pending"
  /\ debounceTimeout' = "fired"
  /\ FetchDataBody(c)
  /\ UNCHANGED <<viewer, modelManager, aiUtils, chartVars, truncVars, skuVars, analysisVars>>

(* axios.get resolves: the rest of the try block, then the finally block.  *)
axiosResolves(c) ==
  /\ calls[c].pc = "request"
  /\ IF isMounted
     THEN /\ data' = "response"
          /\ fetchCache' = (sanitizeURL(url) :> [data |-> "response", fresh |-> TRUE])
          /\ retryCount' = 0
          /\ isLoading' = FALSE
     ELSE UNCHANGED <<data, fetchCache, retryCount, isLoading>>
  /\ calls' = [calls EXCEPT ![c].pc = "settled", ![c].outcome = "success"]
  /\ UNCHANGED <<viewer, modelManager, aiUtils, chartVars, truncVars, skuVars, analysisVars,
                 url, fetchError, debounceTimeout, isMounted>>

(* axios.get rejects: the catch block up to its await, or, when no retry   *)
(* is left or the hook is unmounted, to its end and the finally block.     *)
axiosRejects(c, kind) ==
  /\ calls[c].pc = "request"
  /\ IF ~isMounted
     THEN /\ calls' = [calls EXCEPT ![c].pc = "settled", ![c].outcome = "unmounted"]
          /\ UNCHANGED <<data, fetchError, retryCount, isLoading>>
     ELSE /\ fetchError' = FetchFailure(kind)
          /\ data' = None
          /\ IF retryCount < maxRetries
             THEN /\ retryCount' = retryCount + 1
                  /\ calls' = [calls EXCEPT ![c].pc = "backoff",
                                             ![c].waits = Append(@, BackoffDelay(retryCount + 1))]
                  /\ UNCHANGED isLoading
             ELSE /\ calls' = [calls EXCEPT ![c].pc = "settled", ![c].outcome = "gaveUp"]
                  /\ isLoading' = FALSE
                  /\ UNCHANGED retryCount
  /\ UNCHANGED <<viewer, modelManager, aiUtils, chartVars, truncVars, skuVars, analysisVars,
                 url, fetchCache, debounceTimeout, isMounted>>

(* The backoff timer fires: return fetchDataAttempt() starts the next      *)
(* request, and the finally block of the attempt that waited runs.         *)
backoffElapses(c) ==
  /\ calls[c].pc = "backoff"
  /\ calls' = [calls EXCEPT ![c].pc = "request", ![c].attempts = @ + 1]
  /\ isLoading' = IF isMounted THEN FALSE ELSE isLoading
  /\ UNCHANGED <<viewer, modelManager, aiUtils, chartVars, truncVars, skuVars, analysisVars,
                 url, data, fetchError, fetchCache, debounceTimeout, isMounted, retryCount>>

(* The cleanup of the effect.                                              *)
unmount ==
  /\ isMounted
  /\ isMounted' = FALSE
  /\ debounceTimeout' = IF debounceTimeout = "pending" THEN "cleared" ELSE debounceTimeout
  /\ UNCHANGED <<viewer, modelManager, aiUtils, chartVars, truncVars, skuVars, analysisVars,
                 url, data, isLoading, fetchError, fetchCache, retryCount, calls>>

(* cacheExpiryTime passes since the entry was written.                     *)
cacheExpires ==
  /\ \E key \in DOMAIN fetchCache : fetchCache[key].fresh
  /\ fetchCache' = [key \in DOMAIN fetchCache |-> [fetchCache[key] EXCEPT !.fresh = FALSE]]
  /\ UNCHANGED <<viewer, modelManager, aiUtils, chartVars, truncVars, skuVars, analysisVars,
                 url, data, isLoading, fetchError, debounceTimeout, isMounted, retryCount, calls>>

(* The hook after its first render and effect.                             *)
FetchInit ==
  /\ url = HttpScheme \o <<"h">>
  /\ data = None
  /\ isLoading = FALSE
  /\ fetchError = NoFetchError
  /\ fetchCache = <<>>
  /\ debounceTimeout = "pending"
  /\ isMounted = TRUE
  /\ retryCount = 0
  /\ calls = [c \in CallIds |-> NoFetch]

(***************************************************************************)
(* The 'Map SKU to MSKU' form of SKUMapper with the useSKUMapping hook.    *)
(***************************************************************************)
AlphaNumerics ==
  {"0", "1", "2", "3", "4", "5", "6", "7", "8", "9",
   "a", "b", "c", "d", "e", "f", "g", "h", "i", "j", "k", "l", "m",
   "n", "o", "p", "q", "r", "s", "t", "u", "v", "w", "x", "y", "z",
   "A", "B", "C", "D", "E", "F", "G", "H", "I", "J", "K", "L", "M",
   "N", "O", "P", "Q", "R", "S", "T", "U", "V", "W", "X", "Y", "Z"}

MinSkuLength == 6
MaxSkuLength == 12

(* skuFormatRegex: /^[a-zA-Z0-9]{6,12}$/                                   *)
skuFormatRegex(sku) ==
  /\ Len(sku) >= MinSkuLength
  /\ Len(sku) <= MaxSkuLength
  /\ \A i \in 1..Len(sku) : sku[i] \in AlphaNumerics

(* What the user types into the 'Enter SKU' field: nothing, ABC123,        *)
(* ABC1234, AB (too short), ABC-12 (a dash) and 13 letters (too long).     *)
Skus ==
  {<<>>,
   <<"A", "B", "C", "1", "2", "3">>,
   <<"A", "B", "C", "1", "2", "3", "4">>,
   <<"A", "B">>,
   <<"A", "B", "C", "-", "1", "2">>,
   <<"A", "B", "C", "D", "E", "F", "G", "H", "I", "J", "K", "L", "M">>}

(* The mapping data parsed from an uploaded file: none, the row ABC123,M1, *)
(* and a file that also has the row AB,M2 whose SKU is not of the valid    *)
(* format.                                                                 *)
MappingFiles ==
  {<<>>,
   (<<"A", "B", "C", "1", "2", "3">> :> <<"M", "1">>),
   (<<"A", "B", "C", "1", "2", "3">> :> <<"M", "1">>) @@ (<<"A", "B">> :> <<"M", "2">>)}

StrValue(chars) == [kind |-> "string", value |-> chars]

BoolValue(b) == [kind |-> "boolean", value |-> b]

NullValue == [kind |-> "null", value |-> <<>>]

(* The SKUMappingResult object mapSKUToMSKU returns.                       *)
SKUMappingResult(msku, valid) == [kind |-> "object", value |-> [mappedMSKU |-> msku, validFormat |-> valid]]

EmptySkuError == StrValue(<<"S", "K", "U", " ", "c", "a", "n", "n", "o", "t", " ", "b", "e", " ",
                            "e", "m", "p", "t", "y", ".">>)

(* validateSKUFormat: the boolean returned, from the validation cache when *)
(* the SKU has been validated before.                                      *)
ValidateSKUFormat(validationCache, sku) ==
  IF sku \in DOMAIN validationCache THEN validationCache[sku] ELSE skuFormatRegex(sku)

(* skuValidationCache.current after validateSKUFormat(sku).                *)
ValidationCacheAfter(validationCache, sku) ==
  IF sku \in DOMAIN validationCache THEN validationCache
  ELSE (sku :> skuFormatRegex(sku)) @@ validationCache

(* mapSKUToMSKU                                                            *)
MapSKUToMSKU(validationCache, sku) ==
  IF sku = <<>> THEN SKUMappingResult(NullValue, FALSE)
  ELSE IF sku \in DOMAIN mappingDataCache
       THEN SKUMappingResult(StrValue(mappingDataCache[sku]), TRUE)
  ELSE IF ~ValidateSKUFormat(validationCache, sku) THEN SKUMappingResult(NullValue, FALSE)
  ELSE SKUMappingResult(IF sku \in DOMAIN mappingData THEN StrValue(mappingData[sku]) ELSE NullValue,
                        TRUE)

(* onChange of the 'Enter SKU' field.                                      *)
setSkuToMap(sku) ==
  /\ skuToMap # sku
  /\ skuToMap' = sku
  /\ UNCHANGED <<viewer, modelManager, aiUtils, chartVars, truncVars, fetchVars, analysisVars,
                 mappedMSKU, skuValidationError, mappingData, mappingDataCache, skuValidationCache,
                 lastMap>>

(* The Map button.  The boolean validateSKUFormat returns is used as the   *)
(* validation error; the object mapSKUToMSKU returns is truthy, so it is   *)
(* what setMappedMSKU receives.                                            *)
handleMapSKU ==
  /\ lastMap' = [handled |-> TRUE, sku |-> skuToMap, before |-> mappedMSKU]
  /\ IF skuToMap = <<>>
     THEN /\ skuValidationError' = EmptySkuError
          /\ UNCHANGED <<mappedMSKU, skuValidationCache>>
     ELSE LET validationError == ValidateSKUFormat(skuValidationCache, skuToMap)
              validated == ValidationCacheAfter(skuValidationCache, skuToMap)
          IN  /\ skuValidationCache' = validated
              /\ IF validationError
                 THEN /\ skuValidationError' = BoolValue(validationError)
                      /\ UNCHANGED mappedMSKU
                 ELSE /\ skuValidationError' = NullValue
                      /\ mappedMSKU' = MapSKUToMSKU(validated, skuToMap)
  /\ UNCHANGED <<viewer, modelManager, aiUtils, chartVars, truncVars, fetchVars, analysisVars,
                 skuToMap, mappingData, mappingDataCache>>

NoMap == [handled |-> FALSE, sku |-> <<>>, before |-> StrValue(<<>>)]

(* The page with the mapping data of file loaded.                          *)
SkuInitWith(file) ==
  /\ skuToMap = <<>>
  /\ mappedMSKU = StrValue(<<>>)
  /\ skuValidationError = NullValue
  /\ mappingData = file
  /\ mappingDataCache = file
  /\ skuValidationCache = <<>>
  /\ lastMap = NoMap

SkuInit == SkuInitWith(<<>>)

(***************************************************************************)
(* The useAIAnalysis hook (hooks/useAIAnalysis.ts) with aiUtils and        *)
(* dataUtils.fetchData.  One call runs at a time; it stops at each await   *)
(* and resumes when the awaited promise settles.                           *)
(***************************************************************************)
MaxAnalysisWords == 2

(* The texts typed into the analysis field: up to MaxAnalysisWords of the  *)
(* keywords, the tags <b> and </b>, parts of a keyword and a blank.        *)
AnalysisTexts ==
  LET words == {Sales, Products, Returns, <<"<", "b", ">">>, <<"<", "/", "b", ">">>,
                <<"s", "a">>, <<"l", "e", "s">>, <<" ">>}
  IN  {Flatten(ws) : ws \in UNION {[1..n -> words] : n \in 0..MaxAnalysisWords}}

(* textInput.replace(/<[^>]*>/g, ''): every '<' that a '>' follows is      *)
(* removed together with the text up to the first such '>'.                *)
RECURSIVE StripTags(_)
StripTags(str) ==
  IF str = <<>> THEN <<>>
  ELSE IF str[1] = "<" /\ \E j \in 2..Len(str) : str[j] = ">"
       THEN LET close == CHOOSE j \in 2..Len(str) : str[j] = ">" /\ \A k \in 2..(j - 1) : str[k] # ">"
            IN  StripTags(SubSeq(str, close + 1, Len(str)))
       ELSE <<str[1]>> \o StripTags(Tail(str))

(* The queries fetchDataAndGenerateChart is called with directly.          *)
DirectQueries ==
  {"SELECT * FROM sales", "SELECT * FROM products", "SELECT * FROM returns",
   "SELECT * FROM sales LIMIT 10", "", "DROP TABLE sales"}

(* Of the queries tried, those holding DELETE, UPDATE, INSERT, UNION or    *)
(* DROP.                                                                   *)
UnsafeQueries == {"DROP TABLE sales"}

(* Amounts are in cents.                                                   *)
SalesRows ==
  <<Obj([p \in {"quantity", "revenue"} |-> IF p = "quantity" THEN Num(10) ELSE Num(25990)]),
    Obj([p \in {"quantity", "revenue"} |-> IF p = "quantity" THEN Num(5) ELSE Num(24750)]),
    Obj([p \in {"quantity", "revenue"} |-> IF p = "quantity" THEN Num(20) ELSE Num(25500)])>>

ProductRows ==
  <<Obj([p \in {"product_id", "price"} |-> IF p = "product_id" THEN Num(1) ELSE Num(2599)]),
    Obj([p \in {"product_id", "price"} |-> IF p = "product_id" THEN Num(2) ELSE Num(4950)]),
    Obj([p \in {"product_id", "price"} |-> IF p = "product_id" THEN Num(3) ELSE Num(1275)])>>

ReturnRows ==
  <<Obj([p \in {"return_id", "sale_id"} |-> IF p = "return_id" THEN Num(201) ELSE Num(101)]),
    Obj([p \in {"return_id", "sale_id"} |-> IF p = "return_id" THEN Num(202) ELSE Num(102)])>>

Resolved(value) == [settled |-> "resolved", value |-> value, message |-> ""]

Rejected(message) == [settled |-> "rejected", value |-> <<>>, message |-> message]

(* dataUtils.fetchData(sqlQuery): the rows of the query that is one of the *)
(* three case labels, a rejection for every other query.                   *)
dataUtils_fetchData(query) ==
  IF query = Null \/ query = ""
  THEN Rejected("Invalid SQL query. Query must be a non-empty string.")
  ELSE IF query \in UnsafeQueries
  THEN Rejected("SQL query contains potentially unsafe keywords and cannot be executed.")
  ELSE CASE query = "SELECT * FROM products" -> Resolved(ProductRows)
         [] query = "SELECT * FROM sales" -> Resolved(SalesRows)
         [] query = "SELECT * FROM returns" -> Resolved(ReturnRows)
         [] OTHER -> Rejected("Invalid SQL query. No data could be fetched.")

RECURSIVE SumOf(_, _)
SumOf(rows, p) ==
  IF rows = <<>> THEN 0 ELSE NumberOrZero(rows[1], p) + SumOf(Tail(rows), p)

Insight(label, amount, count) == [label |-> label, amount |-> amount, count |-> count]

(* aiUtils.extractInsights(data): the array of insights, <<>> for null.    *)
aiUtils_extractInsights(rows) ==
  IF Len(rows) = 0 \/ \A i \in 1..Len(rows) : ~IsObject(rows[i]) THEN <<>>
  ELSE IF HasOwnProperty(rows[1], "revenue")
       THEN <<Insight("Total Revenue", SumOf(rows, "revenue"), 1)>>
  ELSE IF HasOwnProperty(rows[1], "quantity") /\ HasOwnProperty(rows[1], "price")
       THEN <<Insight("Average Price", SumOf(rows, "price"), Len(rows))>>
  ELSE <<Insight("No specific insights available.", 0, 1)>>

AnalysisCall(pc, entry, input, query, rows) ==
  [pc |-> pc, entry |-> entry, input |-> input, query |-> query, rows |-> rows]

NoAnalysis == AnalysisCall("idle", None, <<>>, Null, <<>>)

analysisOthers == <<viewer, modelManager, aiUtils, chartVars, truncVars, fetchVars, skuVars>>

(* generateSqlQuery(textInput), up to await aiUtils.textToSQL.             *)
generateSqlQuery(text) ==
  /\ analysisCall.pc \in {"idle", "done"}
  /\ analysisIsLoading' = TRUE
  /\ analysisError' = None
  /\ sqlQuery' = Null
  /\ chartConfig' = NoConfig
  /\ insights' = <<>>
  /\ analysisCall' = AnalysisCall("textToSQL", "generateSqlQuery", text, Null, <<>>)
  /\ UNCHANGED analysisOthers

(* textToSQL settles: setSqlQuery and fetchDataAndGenerateChart up to its  *)
(* await, or the error and the finally block.                              *)
textToSQLSettles ==
  /\ analysisCall.pc = "textToSQL"
  /\ LET generatedQuery == TextToSQL(Str(StripTags(analysisCall.input)))
     IN  IF generatedQuery # Null
         THEN /\ sqlQuery' = generatedQuery
              /\ analysisIsLoading' = TRUE
              /\ analysisError' = None
              /\ chartConfig' = NoConfig
              /\ insights' = <<>>
              /\ analysisCall' = [analysisCall EXCEPT !.pc = "fetchData", !.query = generatedQuery]
         ELSE /\ analysisError' = "Failed to generate SQL query."
              /\ analysisIsLoading' = FALSE
              /\ analysisCall' = [analysisCall EXCEPT !.pc = "done"]
              /\ UNCHANGED <<sqlQuery, chartConfig, insights>>
  /\ UNCHANGED analysisOthers

(* fetchDataAndGenerateChart(sqlQuery) called by the component, up to      *)
(* await dataUtils.fetchData.                                              *)
fetchDataAndGenerateChart(query) ==
  /\ analysisCall.pc \in {"idle", "done"}
  /\ analysisIsLoading' = TRUE
  /\ analysisError' = None
  /\ chartConfig' = NoConfig
  /\ insights' = <<>>
  /\ analysisCall' = AnalysisCall("fetchData", "fetchDataAndGenerateChart", <<>>, query, <<>>)
  /\ UNCHANGED <<analysisOthers, sqlQuery>>

(* dataUtils.fetchData settles: on to await aiUtils.generateChartConfig,   *)
(* or the catch block and the finally blocks of the callers.               *)
fetchDataSettles ==
  /\ analysisCall.pc = "fetchData"
  /\ LET fetched == dataUtils_fetchData(analysisCall.query)
     IN  IF fetched.settled = "resolved"
         THEN /\ analysisCall' = [analysisCall EXCEPT !.pc = "generateChartConfig", !.rows = fetched.value]
              /\ UNCHANGED <<analysisIsLoading, analysisError>>
         ELSE /\ analysisError' = "Error fetching data: " \o fetched.message
              /\ analysisIsLoading' = FALSE
              /\ analysisCall' = [analysisCall EXCEPT !.pc = "done"]
  /\ UNCHANGED <<analysisOthers, sqlQuery, chartConfig, insights>>

(* aiUtils.generateChartConfig settles: setChartConfig and extractInsights *)
(* up to its await, or the error and the finally blocks.                   *)
generateChartConfigSettles ==
  /\ analysisCall.pc = "generateChartConfig"
  /\ LET generatedChartConfig == GenerateChartConfig([kind |-> "array", items |-> analysisCall.rows])
     IN  IF generatedChartConfig # NoConfig
         THEN /\ chartConfig' = generatedChartConfig
              /\ analysisIsLoading' = TRUE
              /\ analysisError' = None
              /\ insights' = <<>>
              /\ analysisCall' = [analysisCall EXCEPT !.pc = "extractInsights"]
         ELSE /\ analysisError' = "Failed to generate chart configuration."
              /\ analysisIsLoading' = FALSE
              /\ analysisCall' = [analysisCall EXCEPT !.pc = "done"]
              /\ UNCHANGED <<chartConfig, insights>>
  /\ UNCHANGED <<analysisOthers, sqlQuery>>

(* aiUtils.extractInsights settles: setInsights or the error, and the      *)
(* finally blocks of extractInsights and of its callers.                   *)
extractInsightsSettles ==
  /\ analysisCall.pc = "extractInsights"
  /\ LET generatedInsights == aiUtils_extractInsights(analysisCall.rows)
     IN  IF generatedInsights # <<>>
         THEN /\ insights' = generatedInsights
              /\ UNCHANGED analysisError
         ELSE /\ analysisError' = "Failed to extract insights."
              /\ UNCHANGED insights
  /\ analysisIsLoading' = FALSE
  /\ analysisCall' = [analysisCall EXCEPT !.pc = "done"]
  /\ UNCHANGED <<analysisOthers, sqlQuery, chartConfig>>

AnalysisInit ==
  /\ analysisCall = NoAnalysis
  /\ sqlQuery = Null
  /\ chartConfig = NoConfig
  /\ insights = <<>>
  /\ analysisIsLoading = FALSE
  /\ analysisError = None

PagesInit ==
  /\ ChartInit
  /\ TruncInit
  /\ FetchInit
  /\ SkuInit
  /\ AnalysisInit

UtilitiesInit ==
  /\ ModelManagerInit
  /\ AiUtilsInit
  /\ PagesInit

ViewerInit(lst) ==
  /\ listener = lst
  /\ component \in Components
  /\ camera = "perspective"
  /\ scene = "present"
  /\ sceneGraph = LoadedSceneGraph
  /\ material = InitialMaterial
  /\ emissive = InitialEmissive
  /\ emissiveIntensity \in [Materials -> InitialIntensities]
  /\ selectedObject = None
  /\ originalMaterialsRef = [created |-> FALSE, entries |-> <<>>]
  /\ interactiveObjects = IF component = "WarehouseModel" THEN {} ELSE LoadedInteractiveObjects
  /\ mouseRef = [x |-> Zero, y |-> Zero]
  /\ error = None
  /\ notifications = <<>>
  /\ diag = <<>>
  /\ steps = <<>>
  /\ lastPick = NoPick
  /\ lastEvent = NoEvent
  /\ current = None
  /\ preAppearance = <<>>
  /\ backToBack = NoBackToBack

Init ==
  /\ ViewerInit("returns")
  /\ UtilitiesInit

Next ==
  \/ \E e \in Events : onCanvasClick(e)
  \/ loadModel
  \/ \E e \in Events : raycast(e)
  \/ \E e \in Events : handleCanvasClick(e)
  \/ SetContext

Spec == Init /\ [][Next]_vars

(***************************************************************************)
(* The hook alone, over every pointer position and rectangle.              *)
(***************************************************************************)
PointerInit ==
  /\ Init
  /\ component = "use3DInteraction"

PointerNext == \E e \in PointerEvents : handleCanvasClick(e)

PointerSpec == PointerInit /\ [][PointerNext]_vars

(***************************************************************************)
(* The components with a selection listener that may throw and a model     *)
(* that holds a malformed material.                                        *)
(***************************************************************************)
FaultEvents == {Event(0, 0, 0, 0, MaxDim, MaxDim, ray) : ray \in FaultRays}

FaultInit ==
  /\ \E lst \in {"returns", "throws"} : ViewerInit(lst)
  /\ UtilitiesInit

FaultNext ==
  \/ \E e \in FaultEvents : onCanvasClick(e)
  \/ loadModel
  \/ \E e \in FaultEvents : raycast(e)
  \/ \E e \in FaultEvents : handleCanvasClick(e)

FaultSpec == FaultInit /\ [][FaultNext]_vars

(***************************************************************************)
(* The ModelManager singleton used by the page that mounts AdvancedScene.  *)
(***************************************************************************)
CacheInit ==
  /\ Init
  /\ component = "AdvancedScene"

CacheNext ==
  \/ \E modelPath \in ModelPaths, forceReload \in BOOLEAN : ModelManager_loadModel(modelPath, forceReload)
  \/ \E call \in LoadCalls, gltf \in LoaderResults : ModelManager_loadModelResumes(call, gltf)
  \/ \E modelPath \in ModelPaths : getModel(modelPath)
  \/ \E modelPath \in ModelPaths : removeModel(modelPath)
  \/ clearCache
  \/ \E o \in 1..MaxObjects : MutateModel(o)

CacheSpec == CacheInit /\ [][CacheNext]_vars

(***************************************************************************)
(* textToSQL applied to each of the arguments.                             *)
(***************************************************************************)
SqlInit ==
  /\ ViewerInit("returns")
  /\ component = "AdvancedScene"
  /\ ModelManagerInit
  /\ PagesInit
  /\ textInput \in TextInputs
  /\ sqlResult = Unset

SqlNext == textToSQL

SqlSpec == SqlInit /\ [][SqlNext]_vars

(***************************************************************************)
(* generateChartConfig applied to each of the arguments.                   *)
(***************************************************************************)
ChartSpecInit ==
  /\ ViewerInit("returns")
  /\ component = "AdvancedScene"
  /\ ModelManagerInit
  /\ AiUtilsInit
  /\ TruncInit
  /\ FetchInit
  /\ SkuInit
  /\ AnalysisInit
  /\ chartInput \in ChartInputs
  /\ chartResult = NoChartResult

ChartNext == generateChartConfig

ChartSpec == ChartSpecInit /\ [][ChartNext]_vars

(***************************************************************************)
(* truncateText applied to each of the arguments.                          *)
(***************************************************************************)
TruncSpecInit ==
  /\ ViewerInit("returns")
  /\ component = "AdvancedScene"
  /\ ModelManagerInit
  /\ AiUtilsInit
  /\ ChartInit
  /\ FetchInit
  /\ SkuInit
  /\ AnalysisInit
  /\ truncInput \in TruncInputs
  /\ truncResult = NoTruncResult

TruncNext == truncateText

TruncSpec == TruncSpecInit /\ [][TruncNext]_vars

(***************************************************************************)
(* A component using useDataFetching: the debounced first fetch, further   *)
(* fetchData calls, the requests' outcomes, the timers and the unmount.    *)
(***************************************************************************)
FetchSpecInit ==
  /\ ViewerInit("returns")
  /\ component = "AdvancedScene"
  /\ ModelManagerInit
  /\ AiUtilsInit
  /\ ChartInit
  /\ TruncInit
  /\ SkuInit
  /\ AnalysisInit
  /\ url \in Urls
  /\ data = None
  /\ isLoading = FALSE
  /\ fetchError = NoFetchError
  /\ fetchCache = <<>>
  /\ debounceTimeout = "pending"
  /\ isMounted = TRUE
  /\ retryCount = 0
  /\ calls = [c \in CallIds |-> NoFetch]

FetchNext ==
  \/ \E c \in CallIds : fetchData(c)
  \/ \E c \in CallIds : throttledFetchData(c)
  \/ \E c \in CallIds : axiosResolves(c)
  \/ \E c \in CallIds, kind \in AxiosErrors : axiosRejects(c, kind)
  \/ \E c \in CallIds : backoffElapses(c)
  \/ unmount
  \/ cacheExpires

FetchSpec == FetchSpecInit /\ [][FetchNext]_vars

(***************************************************************************)
(* The SKUMapper page after a mapping file has been loaded: the user edits *)
(* the SKU field and presses Map.                                          *)
(***************************************************************************)
SkuSpecInit ==
  /\ ViewerInit("returns")
  /\ component = "AdvancedScene"
  /\ ModelManagerInit
  /\ AiUtilsInit
  /\ ChartInit
  /\ TruncInit
  /\ FetchInit
  /\ AnalysisInit
  /\ \E file \in MappingFiles : SkuInitWith(file)

SkuNext ==
  \/ \E sku \in Skus : setSkuToMap(sku)
  \/ handleMapSKU

SkuSpec == SkuSpecInit /\ [][SkuNext]_vars

(***************************************************************************)
(* A page using useAIAnalysis: the user submits texts, the page may also   *)
(* call fetchDataAndGenerateChart with a query of its own.                 *)
(***************************************************************************)
AnalysisSpecInit ==
  /\ ViewerInit("returns")
  /\ component = "AdvancedScene"
  /\ UtilitiesInit

AnalysisNext ==
  \/ \E text \in AnalysisTexts : generateSqlQuery(text)
  \/ textToSQLSettles
  \/ \E query \in DirectQueries : fetchDataAndGenerateChart(query)
  \/ fetchDataSettles
  \/ generateChartConfigSettles
  \/ extractInsightsSettles

AnalysisSpec == AnalysisSpecInit /\ [][AnalysisNext]_vars

(***************************************************************************)
(* AdvancedScene receiving single clicks and pairs of clicks without a     *)
(* render between them.                                                    *)
(***************************************************************************)
BackToBackRays == {<<>>, <<"A1">>, <<"B1">>, <<"M1">>, <<"C1", "A1">>}

BackToBackEvents == {e \in Events : ~Degenerate(e) /\ e.ray \in BackToBackRays}

BackToBackInit ==
  /\ Init
  /\ component = "AdvancedScene"

BackToBackNext ==
  \/ \E e \in BackToBackEvents : onCanvasClick(e)
  \/ \E e1 \in BackToBackEvents, e2 \in BackToBackEvents : onCanvasClickTwice(e1, e2)

BackToBackSpec == BackToBackInit /\ [][BackToBackNext]_vars

(***************************************************************************)
(* Properties.                                                             *)
(***************************************************************************)
Appearance(n) == EntityAppearance(n, material, emissive, emissiveIntensity)

MeshHighlighted(m) == \E id \in EmissiveTargets(material[m]) : emissive[id] = HighlightHex

EntityHighlighted(n) == \E m \in Subtree(n) \cap Meshes : MeshHighlighted(m)

HighlightedEntities == {n \in Selectable : EntityHighlighted(n)}

(* Position of the first step with the given op in a step log, 0 if none.  *)
FirstStep(log, op) ==
  IF \E i \in 1..Len(log) : log[i].op = op
  THEN CHOOSE i \in 1..Len(log) : log[i].op = op /\ \A j \in 1..(i - 1) : log[j].op # op
  ELSE 0

(* The notification a handler delivers for selecting entity n.             *)
SelectedNotification(n) ==
  IF component = "use3DInteraction"
  THEN Notification(Sanitize(NodeName[n]), n)
  ELSE Notification(NodeName[n], None)

(* C1: after any sequence of picks at most one selectable entity has       *)
(* meshes carrying the highlight colour 0xffa500.                          *)
C1_Exclusivity == Cardinality(HighlightedEntities) <= 1

(* C2: a pick that selects A followed by a pick that hits nothing leaves   *)
(* A's appearance equal to its value before A was selected.                *)
C2_RoundTrip ==
  [][(/\ current # None
      /\ lastPick.outcome = "select"
      /\ ~lastPick.repick
      /\ lastPick'.outcome = "miss"
      /\ ~lastPick'.degenerate)
     => EntityAppearance(current, material', emissive', emissiveIntensity') = preAppearance]_vars

(* C3: when A is selected and a pick resolves to another selectable node   *)
(* B, A's appearance is restored from its snapshot to its pre-selection    *)
(* value before any mesh of B is highlighted, and afterwards B is the      *)
(* selected and only highlighted node.                                     *)
C3_Switch ==
  [][(/\ current # None
      /\ lastPick'.outcome = "select"
      /\ lastPick'.entity # current)
     => (/\ EntityAppearance(current, material', emissive', emissiveIntensity') = preAppearance
         /\ component # "use3DInteraction" =>
              /\ FirstStep(steps', "restore") > 0
              /\ FirstStep(steps', "restore") < FirstStep(steps', "highlight")
              /\ HighlightedEntities' = {lastPick'.entity}
         /\ current' = lastPick'.entity)]_vars

C5_NonSelectableDeselects ==
  [][(current # None /\ lastPick'.outcome = "nonselectable")
     => (/\ EntityAppearance(current, material', emissive', emissiveIntensity') = preAppearance
         /\ current' = None
         /\ selectedObject' = None
         /\ notifications' = <<NullNotification>>)]_vars

(* C6: when B is selected and the ray intersects nothing, B's appearance   *)
(* is restored, nothing is selected any more and a SelectionChanged(None)  *)
(* notification reaches the selection listener.                            *)
C6_MissDeselects ==
  [][(current # None /\ lastPick'.outcome = "miss" /\ ~lastPick'.degenerate)
     => (/\ EntityAppearance(current, material', emissive', emissiveIntensity') = preAppearance
         /\ current' = None
         /\ selectedObject' = None
         /\ notifications' = <<NullNotification>>)]_vars

RECURSIVE NearestSelectable(_)
NearestSelectable(n) ==
  IF n = None THEN None ELSE IF IsSelectable(n) THEN n ELSE NearestSelectable(Parent[n])

ParentIfSelectable(n) == IF Parent[n] \in Selectable THEN Parent[n] ELSE None

C8_DegenerateAbandoned ==
  [][(lastPick'.degenerate /\ lastPick'.outcome # "uninitialized")
     => (/\ lastPick'.outcome = "abandoned"
         /\ ~lastPick'.divByZero
         /\ UNCHANGED <<selection, appearance, current>>
         /\ notifications' = <<>>)]_vars

(* C9: a pick made while the camera or the scene is absent changes no      *)
(* selection, highlight or snapshot state, delivers no notification and    *)
(* is reported.                                                            *)
C9_UninitializedContext ==
  [][((camera = "none" \/ scene = "none") /\ UNCHANGED <<camera, scene, interactiveObjects>>)
     => (/\ lastPick'.outcome = "uninitialized"
         /\ UNCHANGED <<selection, appearance, mouseRef, current, preAppearance>>
         /\ notifications' = <<>>
         /\ diag' = <<"error">>)]_vars

C9_Witness ==
  /\ lastPick.outcome = "uninitialized"
  /\ camera = "none"
  /\ component = "AdvancedScene"
  /\ selectedObject = "A"
  /\ error = "Camera not initialized"

One == Frac(1, 1)

MinusOne == Frac(-1, 1)

InRange(r) == IsFinite(r) /\ -r.d <= r.n /\ r.n <= r.d

Normalized == lastPick.outcome \in {"miss", "select", "nonselectable"}

(* C10: for a viewport with positive width and height the pick computes    *)
(* nx = ((x - left)/width)*2 - 1 and ny = -((y - top)/height)*2 + 1: the   *)
(* centre maps to (0, 0), the top-left corner to (-1, 1), the bottom-right *)
(* corner to (1, -1), and every point of the rectangle into [-1, 1].       *)
C10_Normalization ==
  (component = "use3DInteraction" /\ Normalized) =>
    LET e == lastEvent
        dx == e.x - e.left
        dy == e.y - e.top
    IN  /\ e.width > 0 /\ e.height > 0
        /\ mouseRef.x.n * e.width = (2 * dx - e.width) * mouseRef.x.d
        /\ mouseRef.y.n * e.height = (e.height - 2 * dy) * mouseRef.y.d
        /\ mouseRef.x.d > 0 /\ mouseRef.y.d > 0
        /\ (2 * dx = e.width /\ 2 * dy = e.height) => mouseRef = [x |-> Zero, y |-> Zero]
        /\ (dx = 0 /\ dy = 0) => mouseRef = [x |-> MinusOne, y |-> One]
        /\ (dx = e.width /\ dy = e.height) => mouseRef = [x |-> One, y |-> MinusOne]
        /\ (0 <= dx /\ dx <= e.width /\ 0 <= dy /\ dy <= e.height)
             => InRange(mouseRef.x) /\ InRange(mouseRef.y)

C10_Witness ==
  /\ component = "use3DInteraction"
  /\ Normalized
  /\ lastEvent.left = 1
  /\ lastEvent.width = 2
  /\ lastEvent.x = 2
  /\ lastEvent.top = 1
  /\ lastEvent.height = 2
  /\ lastEvent.y = 2
  /\ mouseRef = [x |-> Zero, y |-> Zero]

(* C11: two picks delivered with no render between them, the first         *)
(* resolving to A and the second to B # A or to nothing, leave the same    *)
(* materials, selection and snapshots as when a render occurs between      *)
(* them: A has its pre-selection appearance again and only the second      *)
(* pick's target, if any, is selected and highlighted.                     *)
C11_BackToBack ==
  (backToBack.first # None /\ lastPick.entity # backToBack.first) =>
    /\ <<material, emissive, selectedObject, originalMaterialsRef>> = backToBack.rendered
    /\ Appearance(backToBack.first) = backToBack.before
    /\ selectedObject = lastPick.entity
    /\ HighlightedEntities = {lastPick.entity} \ {None}

(* C12: a pick that selects entity n sets the highlight colour on every    *)
(* material with an emissive property of every mesh in n's subtree, not    *)
(* only of the struck mesh (WarehouseModel also sets the intensity 0.5);   *)
(* materials without an emissive property are left alone, no error is      *)
(* raised and the selection goes through.                                  *)
C12_WholeEntity ==
  [][(component # "use3DInteraction" /\ lastPick'.outcome = "select")
     => LET n == lastPick'.entity
        IN  /\ \A m \in Subtree(n) \cap Meshes :
                 \A id \in EmissiveTargets(material'[m]) :
                    /\ emissive'[id] = HighlightHex
                    /\ component = "WarehouseModel" => emissiveIntensity'[id] = HighlightIntensityTenths
            /\ \A id \in Materials \ HasEmissive :
                 emissive'[id] = emissive[id] /\ emissiveIntensity'[id] = emissiveIntensity[id]
            /\ error' = error
            /\ diag' = <<>>
            /\ current' = n
            /\ component = "AdvancedScene" => selectedObject' = n]_vars

C12_Witness ==
  /\ component = "WarehouseModel"
  /\ lastPick.outcome = "select"
  /\ lastPick.struck = "A1"
  /\ lastPick.entity = "A"
  /\ material["A2"] = Arr(<<Mat("a2a"), Mat("a2b")>>)
  /\ "a2b" \notin HasEmissive
  /\ emissive["a1"] = HighlightHex /\ emissiveIntensity["a1"] = HighlightIntensityTenths
  /\ emissive["a2a"] = HighlightHex /\ emissiveIntensity["a2a"] = HighlightIntensityTenths
  /\ error = None

(* C13: when applying the highlight to one mesh of the picked entity       *)
(* throws, the failure is reported, every other mesh of the entity's       *)
(* subtree still carries the highlight and the entity has become the       *)
(* selected node.                                                          *)
C13_PerNodeIsolation ==
  lastPick.outcome = "failed" =>
    LET n == lastPick.entity
    IN  /\ diag # <<>>
        /\ \A m \in Subtree(n) \cap Meshes :
             \A id \in EmissiveTargets(material[m]) \ Malformed : emissive[id] = HighlightHex
        /\ component = "AdvancedScene" => selectedObject = n

(* C14: between picks originalMaterialsRef holds a snapshot for exactly    *)
(* the currently selected node: none when nothing is selected, never more  *)
(* than one.                                                               *)
C14_SnapshotLifetime ==
  component = "AdvancedScene" =>
    /\ DOMAIN originalMaterialsRef.entries = {selectedObject} \ {None}
    /\ Cardinality(DOMAIN originalMaterialsRef.entries) <= 1

(* C15: every pick that completes a selection transition (a new node       *)
(* becomes selected, or the selected node is deselected by a miss)         *)
(* delivers exactly one selection notification, within the pick and after  *)
(* every restore and highlight mutation of that pick.                      *)
C15_NotificationOrdering ==
  [][(\/ lastPick'.outcome = "select" /\ lastPick'.entity # current
      \/ lastPick'.outcome = "miss" /\ current # None)
     => (/\ Len(notifications') = 1
         /\ component # "use3DInteraction" =>
              /\ Len(steps') > 0
              /\ steps'[Len(steps')].op = "onObjectSelected"
              /\ \A i \in 1..(Len(steps') - 1) : steps'[i].op # "onObjectSelected")]_vars

(* C16: when the selection listener throws during a pick, the exception    *)
(* ends in the handler's catch (the dispatch of the hook's event does not  *)
(* pass it on), and the selection state, the snapshots and the appearance  *)
(* after the pick are those the same pick leaves with a listener that      *)
(* returns normally.                                                       *)
C16_ListenerIsolation ==
  [][(/\ listener = "throws"
      /\ lastPick'.outcome \in {"select", "failed"}
      /\ UNCHANGED interactiveObjects)
     => LET n == lastPick'.entity
            a == highlightObject(n, selectedObject, originalMaterialsRef, material, emissive)
            w == highlightObjectWM(n, material, emissive, emissiveIntensity)
        IN  /\ component = "AdvancedScene" =>
                 /\ error' = "Error during raycasting"
                 /\ selectedObject' = a.pending
                 /\ originalMaterialsRef' = a.ref
                 /\ appearance' = <<a.material, a.emissive, emissiveIntensity>>
            /\ component = "WarehouseModel" =>
                 /\ error' = "Error during raycasting"
                 /\ selection' = selection
                 /\ appearance' = <<material, w.emissive, w.intensity>>
            /\ component = "use3DInteraction" =>
                 /\ error' = error
                 /\ selection' = selection
                 /\ appearance' = appearance]_vars

C16_Witness ==
  /\ listener = "throws"
  /\ component = "AdvancedScene"
  /\ lastPick.outcome = "select"
  /\ lastPick.entity = "B"
  /\ selectedObject = "B"
  /\ DOMAIN originalMaterialsRef.entries = {"A", "B"}
  /\ emissive["b1"] = HighlightHex
  /\ notifications = <<Notification(NodeName["B"], None)>>
  /\ error = "Error during raycasting"

(* The meshes a pick may touch: those in the subtree of the entity         *)
(* selected before the pick and of the entity the pick resolves to.        *)
PickFrame(previous, entity) ==
  ((IF previous = None THEN {} ELSE Subtree(previous))
   \cup (IF entity = None THEN {} ELSE Subtree(entity))) \cap Meshes

C18_NeverHandsOutCache ==
  /\ \A p \in DOMAIN cache : cache[p] \notin held
  /\ (lastCall.op = "loadModel" /\ lastCall.outcome = "returns")
       => ~models[lastCall.returned].tainted

ChangesAt(p) ==
  \/ (p \in DOMAIN cache) # (p \in DOMAIN cache')
  \/ p \in DOMAIN cache /\ p \in DOMAIN cache' /\ cache'[p] # cache[p]

(* C19: the cache holds exactly the paths loaded with success and not      *)
(* removed or cleared since; for such a path loadModel without forceReload *)
(* returns without invoking assetLoader; loadModel with forceReload        *)
(* invokes assetLoader and, when the load succeeds, puts a new object in   *)
(* the cache; a failed load leaves the cache as it was; and an entry       *)
(* changes only through a successful load of its path, removeModel of its  *)
(* path or clearCache.                                                     *)
C19_Caching ==
  [][LET c == lastCall'
         valid == PathError(c.modelPath) = None
     IN  /\ DOMAIN cache' = loaded'
         /\ (c.op = "loadModel" /\ valid /\ c.modelPath \in loaded /\ ~c.forceReload
             /\ pendingLoads \subseteq pendingLoads')
              => (/\ c.outcome = "returns" /\ ~c.invoked
                  /\ pendingLoads' = pendingLoads
                  /\ cache' = cache)
         /\ (c.op = "loadModel" /\ valid /\ c.forceReload /\ pendingLoads \subseteq pendingLoads')
              => (/\ c.outcome = "awaits" /\ c.invoked
                  /\ pendingLoads' = pendingLoads \cup {[modelPath |-> c.modelPath, forceReload |-> TRUE]}
                  /\ pendingLoads' # pendingLoads)
         /\ (c.op = "loadModel" /\ c.outcome = "returns" /\ pendingLoads' # pendingLoads)
              => (/\ c.modelPath \in DOMAIN cache'
                  /\ cache'[c.modelPath] = c.returned
                  /\ c.returned \notin DOMAIN models)
         /\ (c.op = "loadModel" /\ c.outcome = "throws") => cache' = cache
         /\ \A p \in ModelPaths :
              ChangesAt(p) =>
                \/ c.op = "loadModel" /\ c.outcome = "returns" /\ c.modelPath = p
                \/ c.op = "removeModel" /\ c.modelPath = p
                \/ c.op = "clearCache"]_vars

C19_Witness ==
  /\ lastCall = Call("loadModel", PathA, FALSE, "returns", 3, FALSE)
  /\ cache[PathA] = 2
  /\ loaded = {PathA}
  /\ pendingLoads = {}

Count(s, ch) == Cardinality({i \in 1..Len(s) : s[i] = ch})

(* Length of a text once < > & " ' are written as HTML entities.           *)
EscapedLength(s) ==
  Len(s) + 3 * Count(s, "<") + 3 * Count(s, ">") + 4 * Count(s, "&") + 5 * Count(s, "\"")
  + 4 * Count(s, "'")

C21_GenerateChartConfig ==
  (chartResult # NoChartResult /\ chartInput.kind = "array") =>
    LET rows == chartInput.items
        n == Len(rows)
    IN  /\ (n = 0 \/ \A i \in 1..n : ~IsObject(rows[i])) => chartResult = NoConfig
        /\ (n > 0 /\ \A i \in 1..n : IsObject(rows[i])) =>
             /\ chartResult # NoConfig
             /\ HasOwnProperty(rows[1], "revenue") =>
                  /\ chartResult.type = "bar"
                  /\ chartResult.data = [i \in 1..n |-> NumberOrZero(rows[i], "revenue")]
             /\ (HasOwnProperty(rows[1], "quantity") /\ ~HasOwnProperty(rows[1], "revenue")) =>
                  /\ chartResult.type = "line"
                  /\ chartResult.data = [i \in 1..n |-> NumberOrZero(rows[i], "quantity")]
             /\ (~HasOwnProperty(rows[1], "quantity") /\ ~HasOwnProperty(rows[1], "revenue")) =>
                  chartResult.type = "pie"

(* C22: truncateText throws for a negative maxLength, returns the text     *)
(* unchanged when it is no longer than maxLength, and otherwise returns a  *)
(* string no longer than maxLength, whatever the length of the suffix.     *)
C22_TruncateText ==
  truncResult # NoTruncResult =>
    /\ truncInput.maxLength < 0 <=> truncResult.kind = "throws"
    /\ (truncInput.maxLength >= 0 /\ Len(truncInput.text) <= truncInput.maxLength) =>
         truncResult = Returned(truncInput.text)
    /\ (truncInput.maxLength >= 0 /\ Len(truncInput.text) > truncInput.maxLength) =>
         /\ truncResult.kind = "returns"
         /\ Len(truncResult.chars) <= truncInput.maxLength

(* C23: every fetchData call makes at most 1 + maxRetries requests and     *)
(* waits 2^k seconds before its k-th retry, so its retry loop ends.        *)
C23_RetryLoopTerminates ==
  \A c \in CallIds :
    /\ calls[c].attempts <= 1 + maxRetries
    /\ \A k \in 1..Len(calls[c].waits) : calls[c].waits[k] = Pow2(k) * 1000

(* C26: while a fetchData call that did not come from the cache and that   *)
(* no other call overlaps has a request in flight or a retry waiting in    *)
(* backoff, isLoading is true.                                             *)
C26_LoadingUntilSettled ==
  \A c \in CallIds : (Active(c) /\ calls[c].alone) => isLoading

(* C27: a fetchData call that no other call overlaps and whose attempts    *)
(* all fail gives up after maxRetries retries, whatever earlier calls of   *)
(* the hook instance did.                                                  *)
C27_RetryBudgetPerCall ==
  \A c \in CallIds :
    (calls[c].outcome = "gaveUp" /\ calls[c].alone) => calls[c].attempts = 1 + maxRetries

(* C28: once the cleanup of the effect has run, no request is started and  *)
(* data, error and isLoading are not updated.                              *)
C28_NothingAfterUnmount ==
  [][~isMounted =>
       /\ \A c \in CallIds : calls'[c].attempts = calls[c].attempts
       /\ UNCHANGED <<data, fetchError, isLoading>>]_vars

(* C24: after handleMapSKU, a SKU of valid format that is in the loaded    *)
(* mapping data has its MSKU shown and no validation error set; a SKU of   *)
(* invalid format has a validation error set and mappedMSKU left as it was. *)
C24_MapSKU ==
  lastMap.handled =>
    /\ (skuFormatRegex(lastMap.sku) /\ lastMap.sku \in DOMAIN mappingData) =>
         /\ mappedMSKU = StrValue(mappingData[lastMap.sku])
         /\ skuValidationError = NullValue
    /\ ~skuFormatRegex(lastMap.sku) =>
         /\ skuValidationError # NullValue
         /\ mappedMSKU = lastMap.before

(* C25: a generateSqlQuery call whose text makes textToSQL produce a query *)
(* ends with sqlQuery set to that query, a chart configuration, at least   *)
(* one insight, no error and isLoading false.                              *)
C25_PipelineCompletes ==
  LET query == TextToSQL(Str(StripTags(analysisCall.input)))
  IN  (analysisCall.pc = "done" /\ analysisCall.entry = "generateSqlQuery" /\ query # Null) =>
        /\ sqlQuery = query
        /\ chartConfig # NoConfig
        /\ insights # <<>>
        /\ analysisError = None
        /\ ~analysisIsLoading

====
